---- MODULE Spec2Model ----
(***************************************************************************)
(* LiftLab: the ElevatorCar state machine of packages/sim/src/elevator.ts  *)
(* and the SimulationEngine of packages/web/src/engine/SimulationEngine.ts *)
(* with the IntervalTicker, the PassengerSpawner and the Greedy algorithm  *)
(* it drives.                                                              *)
(*                                                                         *)
(* Time is counted in units of a tenth of a second, the deltaTime of one   *)
(* tick at the engine's base rate of 10 ticks per second, so that the      *)
(* timings the engine configures (1.5 s travel, 1.5 s door operation, 2 s  *)
(* door hold) are the integers 15, 15 and 20.                              *)
(***************************************************************************)
EXTENDS Integers, Sequences, FiniteSets, TLC

(***************************************************************************)
(* Bounds of the model                                                     *)
(***************************************************************************)
FloorCount == 3
Capacity == 1
NumPassengers == 3
MaxCandidates == 2
MaxDelta == 2
MaxTime == 1
MaxElevators == 2
MaxSpawned == 2
NumIds == 2
MaxWaitingPerFloor == 1
MaxRunTime == 64
MaxLifecycleTime == 4
SpeedWindow == 32

(***************************************************************************)
(* ElevatorConfig as created by the simulation engine                      *)
(***************************************************************************)
FloorTravelTime == 15
DoorOperationTime == 15
DoorHoldTime == 20

SelfId == "elevator_0"
ElevatorIds == {"elevator_0", "elevator_1"}

(***************************************************************************)
(* Enumerations of models.ts                                               *)
(***************************************************************************)
UP == "up"
DOWN == "down"
IDLE == "idle"
Direction == {UP, DOWN, IDLE}

OPEN == "open"
CLOSED == "closed"
OPENING == "opening"
CLOSING == "closing"
DoorState == {OPEN, CLOSED, OPENING, CLOSING}

MOVE_UP == "moveUp"
MOVE_DOWN == "moveDown"
OPEN_DOORS == "openDoors"
CLOSE_DOORS == "closeDoors"
WAIT == "wait"
ElevatorAction == {MOVE_UP, MOVE_DOWN, OPEN_DOORS, CLOSE_DOORS, WAIT}

(***************************************************************************)
(* Inputs                                                                  *)
(***************************************************************************)
Floors == 0 .. (FloorCount - 1)
FloorArgs == -1 .. FloorCount
\* The deltaTime of a direct call of step: multiples of half a second.
DeltaTimes == {5 * k : k \in 1 .. MaxDelta}
Times == 1 .. MaxTime
Actions == ElevatorAction \cup {"selfDestruct"}
Commands == [elevatorId : ElevatorIds, action : Actions]

\* A waiting passenger: pickupTime and dropoffTime unset (the empty sequence).
WaitingPassenger(i) ==
  LET s == (i \div 2) % FloorCount
  IN  [id |-> i, startFloor |-> s,
       destinationFloor |-> (s + 1 + (i % (FloorCount - 1))) % FloorCount,
       requestTime |-> 0, pickupTime |-> <<>>, dropoffTime |-> <<>>]

PassengerPool == {WaitingPassenger(i) : i \in 1 .. NumPassengers}

RECURSIVE SeqsUpTo(_, _)
SeqsUpTo(S, n) ==
  IF n = 0 THEN {<<>>}
  ELSE LET shorter == SeqsUpTo(S, n - 1)
       IN  shorter \cup {Append(q, x) : q \in shorter, x \in S}

CandidateLists == SeqsUpTo(PassengerPool, MaxCandidates)

\* The spawn rates of a configuration (passengers per minute), the speed
\* multipliers of setSpeed (in hundredths) and the elapsed times of a run at
\* which the random source yields passengers.
SpawnRates == {-1, 0, 60}
Multipliers == {25, 100}
SpawnTimes == {1, DoorOperationTime + 1, DoorOperationTime + 2}

VARIABLES
  state,    \* ElevatorInternalState
  call,     \* the last call: "step", the result of an executeCommand,
            \* "boarded"/"disembarked" (a non-empty list returned), or "none"
  hist,     \* history of the move in progress and of the doors (see HistAfter)
  engine,   \* the SimulationEngine
  ghost,    \* what the engine's properties need of the past (see EngineInit)
  sched,    \* a ticker of tick.ts on its own, with the wall clock (see TickerInit)
  probe     \* a pure function's arguments and result (see GreedyInit, SpawnerInit)

vars == <<state, call, hist, engine, ghost, sched, probe>>

(***************************************************************************)
(* isElevatorFull (models.ts) on the getState() snapshot                   *)
(***************************************************************************)
getState(s) ==
  [id |-> SelfId,
   currentFloor |-> s.currentFloor,
   direction |-> s.direction,
   doorState |-> s.doorState,
   passengers |-> s.passengers,
   capacity |-> Capacity,
   targetFloors |-> s.dropoffFloors \cup s.pickupFloors]

isElevatorFull(elevator) == Len(elevator.passengers) >= elevator.capacity

Clamp(initialFloor) ==
  LET m == IF initialFloor < FloorCount - 1 THEN initialFloor ELSE FloorCount - 1
  IN  IF m > 0 THEN m ELSE 0

InitialState(initialFloor) ==
  [currentFloor |-> Clamp(initialFloor),
   targetFloor |-> <<>>,
   direction |-> IDLE,
   doorState |-> CLOSED,
   doorTimer |-> 0,
   moveTimer |-> 0,
   passengers |-> <<>>,
   requestedFloors |-> {},
   dropoffFloors |-> {},
   pickupFloors |-> {},
   isMoving |-> FALSE,
   actionStartTime |-> 0]

(***************************************************************************)
(* Private methods.  Those that return a boolean yield [ok, st].           *)
(***************************************************************************)
startMovement(s, targetFloor, currentTime) ==
  [s EXCEPT !.targetFloor = <<targetFloor>>,
            !.isMoving = TRUE,
            !.moveTimer = FloorTravelTime,
            !.actionStartTime = currentTime,
            !.direction = IF targetFloor > s.currentFloor THEN UP
                          ELSE IF targetFloor < s.currentFloor THEN DOWN
                          ELSE s.direction]

\* moveUp without the top-floor guard.
moveUp_NoTopGuard(s, currentTime) ==
  IF s.isMoving \/ s.doorState # CLOSED THEN [ok |-> FALSE, st |-> s]
  ELSE [ok |-> TRUE, st |-> startMovement(s, s.currentFloor + 1, currentTime)]

moveUp(s, currentTime) ==
  IF s.isMoving \/ s.doorState # CLOSED THEN [ok |-> FALSE, st |-> s]
  ELSE IF s.currentFloor >= FloorCount - 1 THEN [ok |-> FALSE, st |-> s]
  ELSE [ok |-> TRUE, st |-> startMovement(s, s.currentFloor + 1, currentTime)]

\* moveDown recording the action start time before the bottom-floor guard.
moveDown_StampBeforeGuard(s, currentTime) ==
  IF s.isMoving \/ s.doorState # CLOSED THEN [ok |-> FALSE, st |-> s]
  ELSE IF s.currentFloor <= 0
       THEN [ok |-> FALSE, st |-> [s EXCEPT !.actionStartTime = currentTime]]
  ELSE [ok |-> TRUE, st |-> startMovement(s, s.currentFloor - 1, currentTime)]

moveDown(s, currentTime) ==
  IF s.isMoving \/ s.doorState # CLOSED THEN [ok |-> FALSE, st |-> s]
  ELSE IF s.currentFloor <= 0 THEN [ok |-> FALSE, st |-> s]
  ELSE [ok |-> TRUE, st |-> startMovement(s, s.currentFloor - 1, currentTime)]

\* openDoors without the isMoving guard.
openDoors_IgnoreMoving(s, currentTime) ==
  IF s.doorState = OPEN \/ s.doorState = OPENING
  THEN [ok |-> FALSE, st |-> s]
  ELSE [ok |-> TRUE,
        st |-> [s EXCEPT !.doorState = OPENING,
                         !.doorTimer = DoorOperationTime,
                         !.actionStartTime = currentTime]]

openDoors(s, currentTime) ==
  IF s.doorState = OPEN \/ s.doorState = OPENING \/ s.isMoving
  THEN [ok |-> FALSE, st |-> s]
  ELSE [ok |-> TRUE,
        st |-> [s EXCEPT !.doorState = OPENING,
                         !.doorTimer = DoorOperationTime,
                         !.actionStartTime = currentTime]]

\* closeDoors keeping the running door timer instead of starting a full one.
closeDoors_KeepTimer(s, currentTime) ==
  IF s.doorState = CLOSED \/ s.doorState = CLOSING \/ s.isMoving
  THEN [ok |-> FALSE, st |-> s]
  ELSE [ok |-> TRUE,
        st |-> [s EXCEPT !.doorState = CLOSING,
                         !.actionStartTime = currentTime]]

closeDoors(s, currentTime) ==
  IF s.doorState = CLOSED \/ s.doorState = CLOSING \/ s.isMoving
  THEN [ok |-> FALSE, st |-> s]
  ELSE [ok |-> TRUE,
        st |-> [s EXCEPT !.doorState = CLOSING,
                         !.doorTimer = DoorOperationTime,
                         !.actionStartTime = currentTime]]

shouldStopAtCurrentFloor(s) == s.currentFloor \in s.requestedFloors

updateTimers(s, deltaTime) ==
  [s EXCEPT !.doorTimer = IF s.doorTimer > 0 THEN s.doorTimer - deltaTime
                          ELSE s.doorTimer,
            !.moveTimer = IF s.moveTimer > 0 THEN s.moveTimer - deltaTime
                          ELSE s.moveTimer]

\* updateDoorState without the automatic close of open doors.
updateDoorState_NoAutoClose(s, currentTime) ==
  IF s.doorTimer <= 0
  THEN CASE s.doorState = OPENING ->
              [s EXCEPT !.doorState = OPEN, !.doorTimer = DoorHoldTime]
         [] s.doorState = CLOSING ->
              [s EXCEPT !.doorState = CLOSED]
         [] OTHER -> s
  ELSE s

\* updateDoorState completing a door operation half a second early.
updateDoorState_EarlyExpiry(s, currentTime) ==
  IF s.doorTimer <= 5
  THEN CASE s.doorState = OPENING ->
              [s EXCEPT !.doorState = OPEN, !.doorTimer = DoorHoldTime]
         [] s.doorState = CLOSING ->
              [s EXCEPT !.doorState = CLOSED]
         [] s.doorState = OPEN -> closeDoors(s, currentTime).st
         [] OTHER -> s
  ELSE s

updateDoorState(s, currentTime) ==
  IF s.doorTimer <= 0
  THEN CASE s.doorState = OPENING ->
              [s EXCEPT !.doorState = OPEN, !.doorTimer = DoorHoldTime]
         [] s.doorState = CLOSING ->
              [s EXCEPT !.doorState = CLOSED]
         [] s.doorState = OPEN -> closeDoors(s, currentTime).st
         [] OTHER -> s
  ELSE s

\* updateMovement completing the move only once the timer is below zero.
updateMovement_StrictExpiry(s, currentTime) ==
  IF s.isMoving /\ s.moveTimer < 0
  THEN LET arrived == [s EXCEPT !.currentFloor = Head(s.targetFloor),
                                !.targetFloor = <<>>,
                                !.isMoving = FALSE]
       IN  IF shouldStopAtCurrentFloor(arrived)
           THEN openDoors(arrived, currentTime).st
           ELSE arrived
  ELSE s

\* updateMovement deciding whether to stop before currentFloor is updated.
updateMovement_StopCheckAtDeparture(s, currentTime) ==
  IF s.isMoving /\ s.moveTimer <= 0
  THEN LET arrived == [s EXCEPT !.currentFloor = Head(s.targetFloor),
                                !.targetFloor = <<>>,
                                !.isMoving = FALSE]
       IN  IF shouldStopAtCurrentFloor(s)
           THEN openDoors(arrived, currentTime).st
           ELSE arrived
  ELSE s

\* updateMovement opening the doors of a stationary car at a requested floor.
updateMovement_OpenWhenIdle(s, currentTime) ==
  IF s.isMoving /\ s.moveTimer <= 0
  THEN LET arrived == [s EXCEPT !.currentFloor = Head(s.targetFloor),
                                !.targetFloor = <<>>,
                                !.isMoving = FALSE]
       IN  IF shouldStopAtCurrentFloor(arrived)
           THEN openDoors(arrived, currentTime).st
           ELSE arrived
  ELSE IF ~s.isMoving /\ s.doorState = CLOSED /\ shouldStopAtCurrentFloor(s)
       THEN openDoors(s, currentTime).st
  ELSE s

updateMovement(s, currentTime) ==
  IF s.isMoving /\ s.moveTimer <= 0
  THEN LET arrived == [s EXCEPT !.currentFloor = Head(s.targetFloor),
                                !.targetFloor = <<>>,
                                !.isMoving = FALSE]
       IN  IF shouldStopAtCurrentFloor(arrived)
           THEN openDoors(arrived, currentTime).st
           ELSE arrived
  ELSE s

\* updateDirection without the rule that keeps the current direction.
updateDirection_NoContinue(s) ==
  IF s.isMoving THEN s
  ELSE IF s.requestedFloors = {} THEN [s EXCEPT !.direction = IDLE]
  ELSE LET hasUpRequests == \E floor \in s.requestedFloors : floor > s.currentFloor
           hasDownRequests == \E floor \in s.requestedFloors : floor < s.currentFloor
       IN  IF hasUpRequests THEN [s EXCEPT !.direction = UP]
           ELSE IF hasDownRequests THEN [s EXCEPT !.direction = DOWN]
           ELSE [s EXCEPT !.direction = IDLE]

updateDirection(s) ==
  IF s.isMoving THEN s
  ELSE IF s.requestedFloors = {} THEN [s EXCEPT !.direction = IDLE]
  ELSE LET hasUpRequests == \E floor \in s.requestedFloors : floor > s.currentFloor
           hasDownRequests == \E floor \in s.requestedFloors : floor < s.currentFloor
       IN  IF s.direction = UP /\ hasUpRequests THEN s
           ELSE IF s.direction = DOWN /\ hasDownRequests THEN s
           ELSE IF hasUpRequests THEN [s EXCEPT !.direction = UP]
           ELSE IF hasDownRequests THEN [s EXCEPT !.direction = DOWN]
           ELSE [s EXCEPT !.direction = IDLE]

(***************************************************************************)
(* Public methods                                                          *)
(***************************************************************************)
executeCommand(s, command, currentTime) ==
  IF command.elevatorId # SelfId THEN [ok |-> FALSE, st |-> s]
  ELSE CASE command.action = MOVE_UP -> moveUp(s, currentTime)
         [] command.action = MOVE_DOWN -> moveDown(s, currentTime)
         [] command.action = OPEN_DOORS -> openDoors(s, currentTime)
         [] command.action = CLOSE_DOORS -> closeDoors(s, currentTime)
         [] command.action = WAIT -> [ok |-> TRUE, st |-> s]
         [] OTHER -> [ok |-> FALSE, st |-> s]

step(s, deltaTime, currentTime) ==
  updateDirection(
    updateMovement(
      updateDoorState(updateTimers(s, deltaTime), currentTime),
      currentTime))

\* addPickupRequest without the check of the floor against the building.
addPickupRequest_NoRangeCheck(s, floor) ==
  [s EXCEPT !.pickupFloors = @ \cup {floor},
            !.requestedFloors = @ \cup {floor}]

addPickupRequest(s, floor) ==
  IF floor >= 0 /\ floor < FloorCount
  THEN [s EXCEPT !.pickupFloors = @ \cup {floor},
                 !.requestedFloors = @ \cup {floor}]
  ELSE s

addDropoffRequest(s, floor) ==
  IF floor >= 0 /\ floor < FloorCount
  THEN [s EXCEPT !.dropoffFloors = @ \cup {floor},
                 !.requestedFloors = @ \cup {floor}]
  ELSE s

\* The loop of boardPassengers over candidates i..Len(candidates); acc is
\* [st, boarded].
RECURSIVE boardLoop(_, _, _, _)
boardLoop(acc, candidates, i, currentTime) ==
  IF i > Len(candidates) THEN acc
  ELSE LET passenger == candidates[i]
           s == acc.st
       IN  IF passenger.startFloor = s.currentFloor
              /\ Len(s.passengers) < Capacity
           THEN LET p == [passenger EXCEPT !.pickupTime = <<currentTime>>]
                    s1 == [s EXCEPT !.passengers = Append(@, p)]
                IN  boardLoop([st |-> addDropoffRequest(s1, p.destinationFloor),
                               boarded |-> Append(acc.boarded, p)],
                              candidates, i + 1, currentTime)
           ELSE boardLoop(acc, candidates, i + 1, currentTime)

\* boardPassengers without the check that the doors are open.
boardPassengers_IgnoreDoors(s, candidates, currentTime) ==
  IF isElevatorFull(getState(s))
  THEN [st |-> s, boarded |-> <<>>]
  ELSE LET r == boardLoop([st |-> s, boarded |-> <<>>], candidates, 1, currentTime)
           s1 == r.st
       IN  IF Len(r.boarded) > 0
           THEN [st |-> [s1 EXCEPT
                           !.pickupFloors = @ \ {s1.currentFloor},
                           !.requestedFloors =
                              IF s1.currentFloor \notin s1.dropoffFloors
                              THEN @ \ {s1.currentFloor} ELSE @],
                 boarded |-> r.boarded]
           ELSE r

\* boardPassengers clearing the pickup request whether or not anyone boarded.
boardPassengers_AlwaysClears(s, candidates, currentTime) ==
  IF s.doorState # OPEN \/ isElevatorFull(getState(s))
  THEN [st |-> s, boarded |-> <<>>]
  ELSE LET r == boardLoop([st |-> s, boarded |-> <<>>], candidates, 1, currentTime)
           s1 == r.st
       IN  [st |-> [s1 EXCEPT
                      !.pickupFloors = @ \ {s1.currentFloor},
                      !.requestedFloors =
                         IF s1.currentFloor \notin s1.dropoffFloors
                         THEN @ \ {s1.currentFloor} ELSE @],
            boarded |-> r.boarded]

boardPassengers(s, candidates, currentTime) ==
  IF s.doorState # OPEN \/ isElevatorFull(getState(s))
  THEN [st |-> s, boarded |-> <<>>]
  ELSE LET r == boardLoop([st |-> s, boarded |-> <<>>], candidates, 1, currentTime)
           s1 == r.st
       IN  IF Len(r.boarded) > 0
           THEN [st |-> [s1 EXCEPT
                           !.pickupFloors = @ \ {s1.currentFloor},
                           !.requestedFloors =
                              IF s1.currentFloor \notin s1.dropoffFloors
                              THEN @ \ {s1.currentFloor} ELSE @],
                 boarded |-> r.boarded]
           ELSE r

\* The loop of disembarkPassengers from index i down to 1; acc is
\* [st, disembarked].
RECURSIVE disembarkLoop(_, _, _)
disembarkLoop(acc, i, currentTime) ==
  IF i < 1 THEN acc
  ELSE LET s == acc.st
           passenger == s.passengers[i]
       IN  IF passenger.destinationFloor = s.currentFloor
           THEN LET p == [passenger EXCEPT !.dropoffTime = <<currentTime>>]
                    rest == [k \in 1 .. (Len(s.passengers) - 1) |->
                               IF k < i THEN s.passengers[k]
                               ELSE s.passengers[k + 1]]
                IN  disembarkLoop([st |-> [s EXCEPT !.passengers = rest],
                                   disembarked |-> Append(acc.disembarked, p)],
                                  i - 1, currentTime)
           ELSE disembarkLoop(acc, i - 1, currentTime)

\* disembarkPassengers letting passengers out whatever the door state.
disembarkPassengers_IgnoreDoors(s, currentTime) ==
  LET r == disembarkLoop([st |-> s, disembarked |-> <<>>],
                         Len(s.passengers), currentTime)
      s1 == r.st
  IN  IF Len(r.disembarked) > 0
      THEN [st |-> [s1 EXCEPT
                      !.dropoffFloors = @ \ {s1.currentFloor},
                      !.requestedFloors =
                         IF s1.currentFloor \notin s1.pickupFloors
                         THEN @ \ {s1.currentFloor} ELSE @],
            disembarked |-> r.disembarked]
      ELSE r

disembarkPassengers(s, currentTime) ==
  IF s.doorState # OPEN THEN [st |-> s, disembarked |-> <<>>]
  ELSE LET r == disembarkLoop([st |-> s, disembarked |-> <<>>],
                              Len(s.passengers), currentTime)
           s1 == r.st
       IN  IF Len(r.disembarked) > 0
           THEN [st |-> [s1 EXCEPT
                           !.dropoffFloors = @ \ {s1.currentFloor},
                           !.requestedFloors =
                              IF s1.currentFloor \notin s1.pickupFloors
                              THEN @ \ {s1.currentFloor} ELSE @],
                 disembarked |-> r.disembarked]
           ELSE r

(***************************************************************************)
(* IntervalTicker (tick.ts), the ticker the engine creates.  Tick rates    *)
(* and speed multipliers are carried in hundredths (a rate of 1000 is 10   *)
(* ticks per second, a multiplier of 25 is 0.25x), so that intervalMs =    *)
(* 1000 / ticksPerSecond is an integer.  intervalId is the period in ms of *)
(* the armed setInterval timer, 0 when no timer is armed.                  *)
(***************************************************************************)
BaseTickRate == 10

createTicker(ticksPerSecond) ==
  [intervalMs |-> 100000 \div ticksPerSecond,
   isActive |-> FALSE,
   isPausedState |-> FALSE,
   totalElapsedTime |-> 0,
   intervalId |-> 0]

\* IntervalTicker.start restarting the elapsed time from zero.
tickerStart_ResetsTime(k) ==
  IF k.isActive THEN k
  ELSE [k EXCEPT !.isActive = TRUE,
                 !.isPausedState = FALSE,
                 !.totalElapsedTime = 0,
                 !.intervalId = k.intervalMs]

tickerStart(k) ==
  IF k.isActive THEN k
  ELSE [k EXCEPT !.isActive = TRUE,
                 !.isPausedState = FALSE,
                 !.intervalId = k.intervalMs]

tickerStop(k) ==
  [k EXCEPT !.isActive = FALSE, !.isPausedState = FALSE, !.intervalId = 0]

tickerPause(k) ==
  IF ~k.isActive THEN k ELSE [k EXCEPT !.isPausedState = TRUE]

tickerResume(k) ==
  IF ~k.isActive \/ ~k.isPausedState THEN k
  ELSE [k EXCEPT !.isPausedState = FALSE]

tickerIsRunning(k) == k.isActive /\ ~k.isPausedState

getTickRate(k) == 100000 \div k.intervalMs

\* A tick rate that is not positive throws: the ticker stays as it was.
setTickRate(k, ticksPerSecond) ==
  IF ticksPerSecond <= 0 THEN k
  ELSE LET wasRunning == tickerIsRunning(k)
           k1 == [k EXCEPT !.intervalMs = 100000 \div ticksPerSecond]
       IN  IF wasRunning THEN tickerStart(tickerStop(k1)) ELSE k1

\* The deltaTime the interval callback reports, intervalMs / 1000 seconds,
\* in tenths of a second.
tickDeltaTime(k) == k.intervalMs \div 100

(***************************************************************************)
(* The two tickers of tick.ts on their own, under a wall clock that counts *)
(* tenths of a second.  A timer handle holds the delay it was armed with   *)
(* (0: no timer); the instant it is due is kept beside the ticker, in      *)
(* sched.due.  The registered callbacks are the sequence sched.callbacks,  *)
(* in registration order (a Set iterates in insertion order); the          *)
(* callbacks of ThrowingCallbacks throw whenever they are invoked.         *)
(***************************************************************************)
NumCallbacks == 2
MaxClock == 5
TickerRates == {500, 1000}
ThrowingCallbacks == {1}

createPrecisionTicker(ticksPerSecond) ==
  [intervalMs |-> 100000 \div ticksPerSecond,
   isActive |-> FALSE,
   isPausedState |-> FALSE,
   lastTickTime |-> 0,
   totalElapsedTime |-> 0,
   animationFrameId |-> 0,
   timeoutId |-> 0]

\* PrecisionTicker.scheduleNextTick: an animation frame where the
\* environment has requestAnimationFrame, a timeout of intervalMs elsewhere.
scheduleNextTick(k, raf) ==
  IF ~k.isActive \/ k.isPausedState THEN k
  ELSE IF raf THEN [k EXCEPT !.animationFrameId = 1]
  ELSE [k EXCEPT !.timeoutId = k.intervalMs]

cancelScheduledTick(k) ==
  [k EXCEPT !.animationFrameId = 0, !.timeoutId = 0]

precisionStart(k, raf, now) ==
  IF k.isActive THEN k
  ELSE scheduleNextTick([k EXCEPT !.isActive = TRUE,
                                  !.isPausedState = FALSE,
                                  !.lastTickTime = now], raf)

precisionStop(k) ==
  cancelScheduledTick([k EXCEPT !.isActive = FALSE, !.isPausedState = FALSE])

precisionPause(k) ==
  IF ~k.isActive THEN k
  ELSE cancelScheduledTick([k EXCEPT !.isPausedState = TRUE])

precisionResume(k, raf, now) ==
  IF ~k.isActive \/ ~k.isPausedState THEN k
  ELSE scheduleNextTick([k EXCEPT !.isPausedState = FALSE,
                                  !.lastTickTime = now], raf)

\* A tick rate that is not positive throws: the ticker stays as it was.
precisionSetTickRate(k, ticksPerSecond) ==
  IF ticksPerSecond <= 0 THEN k
  ELSE [k EXCEPT !.intervalMs = 100000 \div ticksPerSecond]

resetTime(k) == [k EXCEPT !.totalElapsedTime = 0]

precisionResetTime(k, now) ==
  [k EXCEPT !.totalElapsedTime = 0, !.lastTickTime = now]

\* callbacks.forEach with the try/catch around each call, stopping at the
\* first callback that throws.
invokeCallbacks_NoCatch(callbacks, deltaTime, totalTime) ==
  LET n == Len(callbacks)
      firstThrow == IF \E i \in 1 .. n : callbacks[i] \in ThrowingCallbacks
                    THEN CHOOSE i \in 1 .. n :
                           /\ callbacks[i] \in ThrowingCallbacks
                           /\ \A j \in 1 .. (i - 1) : callbacks[j] \notin ThrowingCallbacks
                    ELSE n
  IN  [i \in 1 .. firstThrow |->
         [callback |-> callbacks[i], deltaTime |-> deltaTime,
          totalTime |-> totalTime, threw |-> callbacks[i] \in ThrowingCallbacks]]

\* callbacks.forEach with the try/catch around each call: the invocations
\* of one tick, in order.
invokeCallbacks(callbacks, deltaTime, totalTime) ==
  [i \in 1 .. Len(callbacks) |->
     [callback |-> callbacks[i], deltaTime |-> deltaTime,
      totalTime |-> totalTime, threw |-> callbacks[i] \in ThrowingCallbacks]]

\* PrecisionTicker.tick at the instant now: the ticker afterwards, the
\* (deltaTime, totalTime) it delivered if it delivered, and the invocations.
precisionTick(k, raf, now, callbacks) ==
  IF ~k.isActive \/ k.isPausedState
  THEN [tk |-> k, tick |-> <<>>, log |-> <<>>]
  ELSE LET deltaTime == now - k.lastTickTime
       IN  IF deltaTime * 100 >= k.intervalMs
           THEN LET totalTime == k.totalElapsedTime + deltaTime
                    k1 == [k EXCEPT !.totalElapsedTime = totalTime,
                                    !.lastTickTime = now]
                IN  [tk |-> scheduleNextTick(k1, raf),
                     tick |-> <<[deltaTime |-> deltaTime, totalTime |-> totalTime]>>,
                     log |-> invokeCallbacks(callbacks, deltaTime, totalTime)]
           ELSE [tk |-> scheduleNextTick(k, raf), tick |-> <<>>, log |-> <<>>]

\* The interval callback of IntervalTicker.start delivering while paused.
intervalTick_IgnoresPause(k, callbacks) ==
  LET deltaTime == tickDeltaTime(k)
      totalTime == k.totalElapsedTime + deltaTime
  IN  [tk |-> [k EXCEPT !.totalElapsedTime = totalTime],
       tick |-> <<[deltaTime |-> deltaTime, totalTime |-> totalTime]>>,
       log |-> invokeCallbacks(callbacks, deltaTime, totalTime)]

\* The interval callback of IntervalTicker.start.
intervalTick(k, callbacks) ==
  IF k.isPausedState
  THEN [tk |-> k, tick |-> <<>>, log |-> <<>>]
  ELSE LET deltaTime == tickDeltaTime(k)
           totalTime == k.totalElapsedTime + deltaTime
       IN  [tk |-> [k EXCEPT !.totalElapsedTime = totalTime],
            tick |-> <<[deltaTime |-> deltaTime, totalTime |-> totalTime]>>,
            log |-> invokeCallbacks(callbacks, deltaTime, totalTime)]

\* Ticker.onTick: a callback already registered is not registered again.
onTick_register(callbacks, c) ==
  IF \E i \in 1 .. Len(callbacks) : callbacks[i] = c THEN callbacks
  ELSE Append(callbacks, c)

\* The unsubscribe function onTick returns.
unsubscribe(callbacks, c) == SelectSeq(callbacks, LAMBDA x : x # c)

(***************************************************************************)
(* PassengerSpawner (spawner.ts) as the engine configures it.  The values  *)
(* the random source yields in one nextTick are the argument draws: one    *)
(* [startFloor, destinationFloor, id] per passenger of the Poisson count.  *)
(***************************************************************************)
MinSpawnIntervalMs == 50

selectDestinationFloor(startFloor) ==
  IF startFloor = 0 THEN 1 .. (FloorCount - 1)
  ELSE IF startFloor = FloorCount - 1 THEN 0 .. (FloorCount - 2)
  ELSE Floors \ {startFloor}

\* <<>> when no passenger is made, <<passenger>> otherwise.  serial is the
\* identity of the passenger object, which the program never reads.
spawnSinglePassenger(draw, currentTime, existingWaitingCounts, serial) ==
  IF existingWaitingCounts[draw.startFloor + 1] >= MaxWaitingPerFloor THEN <<>>
  ELSE IF draw.destinationFloor = draw.startFloor THEN <<>>
  ELSE <<[id |-> draw.id,
          startFloor |-> draw.startFloor,
          destinationFloor |-> draw.destinationFloor,
          requestTime |-> currentTime,
          pickupTime |-> <<>>,
          dropoffTime |-> <<>>,
          serial |-> serial]>>

RECURSIVE spawnLoop(_, _, _, _, _, _)
spawnLoop(passengers, draws, i, currentTime, existingWaitingCounts, nextSerial) ==
  IF i > Len(draws) THEN passengers
  ELSE LET passenger == spawnSinglePassenger(draws[i], currentTime,
                                             existingWaitingCounts, nextSerial)
       IN  spawnLoop(passengers \o passenger, draws, i + 1, currentTime,
                     existingWaitingCounts, nextSerial + Len(passenger))

\* Yields [sp, passengers]: the spawner after the call and the new passengers.
nextTick(sp, deltaTime, currentTime, existingWaitingCounts, draws, nextSerial) ==
  LET since == sp.timeSinceLastSpawn + deltaTime
  IN  IF since * 100 < MinSpawnIntervalMs
      THEN [sp |-> [sp EXCEPT !.timeSinceLastSpawn = since], passengers |-> <<>>]
      ELSE LET passengers == spawnLoop(<<>>, draws, 1, currentTime,
                                       existingWaitingCounts, nextSerial)
           IN  [sp |-> [sp EXCEPT !.timeSinceLastSpawn =
                                     IF Len(passengers) > 0 THEN 0 ELSE since],
                passengers |-> passengers]

\* A negative rate throws: the spawner stays as it was.
setSpawnRate(sp, newRate) ==
  IF newRate < 0 THEN sp ELSE [sp EXCEPT !.spawnRate = newRate]

(***************************************************************************)
(* GreedyAlgorithm (algorithms).  A command or a floor that may be null is *)
(* a sequence of length 0 or 1.                                            *)
(***************************************************************************)
Abs(n) == IF n < 0 THEN -n ELSE n

\* The nearest-floor search keeping the last floor among equally near ones
\* (distance <= minDistance).
nearestFloorOf_LastAmongTies(floors, currentFloor) ==
  IF Len(floors) = 0 THEN <<>>
  ELSE LET k == CHOOSE k \in 1 .. Len(floors) :
                  /\ \A j \in 1 .. Len(floors) :
                       Abs(floors[k] - currentFloor) <= Abs(floors[j] - currentFloor)
                  /\ \A j \in (k + 1) .. Len(floors) :
                       Abs(floors[j] - currentFloor) > Abs(floors[k] - currentFloor)
       IN  <<floors[k]>>

\* The loop shared by findNearestDestination and findNearestCall: the first
\* floor of the list at the least distance from currentFloor.
nearestFloorOf(floors, currentFloor) ==
  IF Len(floors) = 0 THEN <<>>
  ELSE LET k == CHOOSE k \in 1 .. Len(floors) :
                  /\ \A j \in 1 .. Len(floors) :
                       Abs(floors[k] - currentFloor) <= Abs(floors[j] - currentFloor)
                  /\ \A j \in 1 .. (k - 1) :
                       Abs(floors[j] - currentFloor) > Abs(floors[k] - currentFloor)
       IN  <<floors[k]>>

findNearestDestination(elevator) ==
  nearestFloorOf([k \in 1 .. Len(elevator.passengers) |->
                    elevator.passengers[k].destinationFloor],
                 elevator.currentFloor)

findNearestCall(elevator, waitingPassengers) ==
  nearestFloorOf([k \in 1 .. Len(waitingPassengers) |->
                    waitingPassengers[k].startFloor],
                 elevator.currentFloor)

createMoveCommand(elevator, targetFloor) ==
  IF targetFloor = elevator.currentFloor
  THEN <<[elevatorId |-> elevator.id, action |-> OPEN_DOORS]>>
  ELSE IF targetFloor > elevator.currentFloor
  THEN <<[elevatorId |-> elevator.id, action |-> MOVE_UP]>>
  ELSE <<[elevatorId |-> elevator.id, action |-> MOVE_DOWN]>>

getElevatorCommand(elevator, waitingPassengers) ==
  IF elevator.doorState = OPEN
  THEN <<[elevatorId |-> elevator.id, action |-> CLOSE_DOORS]>>
  ELSE IF Len(elevator.passengers) > 0
  THEN createMoveCommand(elevator, Head(findNearestDestination(elevator)))
  ELSE IF elevator.direction = IDLE
          /\ findNearestCall(elevator, waitingPassengers) # <<>>
  THEN createMoveCommand(elevator,
                         Head(findNearestCall(elevator, waitingPassengers)))
  ELSE <<>>

RECURSIVE onTickLoop(_, _, _, _)
onTickLoop(commands, elevators, i, waitingPassengers) ==
  IF i > Len(elevators) THEN commands
  ELSE onTickLoop(commands \o getElevatorCommand(elevators[i], waitingPassengers),
                  elevators, i + 1, waitingPassengers)

\* onTick returning after the first command it finds.
onTick_FirstCommandOnly(elevators, waitingPassengers, currentTime) ==
  LET all == onTickLoop(<<>>, elevators, 1, waitingPassengers)
  IN  IF all = <<>> THEN <<>> ELSE <<Head(all)>>

onTick(elevators, waitingPassengers, currentTime) ==
  onTickLoop(<<>>, elevators, 1, waitingPassengers)

(***************************************************************************)
(* SimulationEngine.  The engine is a record; its spawner and its ticker   *)
(* are <<>> when null.  The cars are ElevatorCar states; car i has the id  *)
(* ElevatorIdOf[i], which for the car itself is SelfId.                    *)
(***************************************************************************)
SIM_IDLE == "idle"
SIM_RUNNING == "running"
SIM_PAUSED == "paused"

ElevatorIdOf == <<"elevator_0", "elevator_1", "elevator_2">>

NewEngine(config) ==
  [config |-> config,
   elevators |-> <<>>,
   waitingPassengers |-> <<>>,
   completedPassengers |-> <<>>,
   spawner |-> <<>>,
   ticker |-> <<>>,
   status |-> SIM_IDLE]

initialize(e) ==
  [e EXCEPT !.elevators = [i \in 1 .. e.config.elevators |-> InitialState(0)],
            !.spawner = <<[spawnRate |-> e.config.spawnRate,
                           timeSinceLastSpawn |-> 0]>>,
            !.ticker = <<createTicker(BaseTickRate * 100)>>]

engineStart(e) ==
  LET e1 == IF e.status = SIM_IDLE THEN initialize(e) ELSE e
  IN  [e1 EXCEPT !.status = SIM_RUNNING,
                 !.ticker = IF @ = <<>> THEN @ ELSE <<tickerStart(Head(@))>>]

enginePause(e) ==
  [e EXCEPT !.status = SIM_PAUSED,
            !.ticker = IF @ = <<>> THEN @ ELSE <<tickerPause(Head(@))>>]

engineResume(e) ==
  [e EXCEPT !.status = SIM_RUNNING,
            !.ticker = IF @ = <<>> THEN @ ELSE <<tickerResume(Head(@))>>]

\* ticker.stop() disarms the timer before the ticker is dropped.
engineReset(e) ==
  [e EXCEPT !.status = SIM_IDLE,
            !.ticker = <<>>,
            !.elevators = <<>>,
            !.waitingPassengers = <<>>,
            !.completedPassengers = <<>>,
            !.spawner = <<>>]

\* newConfig is a partial configuration: a field that is not given is <<>>.
mergeConfig(config, newConfig) ==
  [floors |-> IF newConfig.floors = <<>> THEN config.floors
              ELSE Head(newConfig.floors),
   elevators |-> IF newConfig.elevators = <<>> THEN config.elevators
                 ELSE Head(newConfig.elevators),
   spawnRate |-> IF newConfig.spawnRate = <<>> THEN config.spawnRate
                 ELSE Head(newConfig.spawnRate)]

\* setSpawnRate throws on a negative rate, and then the rest of updateConfig
\* does not run.
updateConfig(e, newConfig) ==
  LET e1 == [e EXCEPT !.config = mergeConfig(e.config, newConfig)]
      toSpawner == newConfig.spawnRate # <<>> /\ e.spawner # <<>>
  IN  IF toSpawner /\ e1.config.spawnRate < 0 THEN e1
      ELSE LET e2 == IF toSpawner
                     THEN [e1 EXCEPT !.spawner =
                             <<setSpawnRate(Head(@), e1.config.spawnRate)>>]
                     ELSE e1
           IN  IF (newConfig.floors # <<>> \/ newConfig.elevators # <<>>)
                  /\ e2.status # SIM_IDLE
               THEN engineReset(e2)
               ELSE e2

setSpeed(e, multiplier) ==
  LET adjustedTickRate == BaseTickRate * multiplier
  IN  [e EXCEPT !.ticker = IF @ = <<>> THEN @
                           ELSE <<setTickRate(Head(@), adjustedTickRate)>>]

\* The snapshot of car i handed to the algorithm.
snapshotOf(elevators, i) == [getState(elevators[i]) EXCEPT !.id = ElevatorIdOf[i]]

RECURSIVE executeCommands(_, _, _, _)
executeCommands(s, elevatorCommands, k, totalTime) ==
  IF k > Len(elevatorCommands) THEN s
  ELSE executeCommands(
         executeCommand(s, [elevatorId |-> SelfId,
                            action |-> elevatorCommands[k].action], totalTime).st,
         elevatorCommands, k + 1, totalTime)

\* The loop body leaving the boarded passengers in the waiting list.
processElevator_NoRemoval(acc, i, commands, deltaTime, totalTime) ==
  LET stepped == step(acc.elevators[i], deltaTime, totalTime)
      IsOwn(c) == c.elevatorId = ElevatorIdOf[i]
      commanded == executeCommands(stepped, SelectSeq(commands, IsOwn), 1, totalTime)
      b == boardPassengers(commanded, acc.waitingPassengers, totalTime)
      d == disembarkPassengers(b.st, totalTime)
  IN  [elevators |-> [acc.elevators EXCEPT ![i] = d.st],
       waitingPassengers |-> acc.waitingPassengers,
       completedPassengers |-> acc.completedPassengers \o d.disembarked]

\* The body of the loop over the cars, for car i; acc is
\* [elevators, waitingPassengers, completedPassengers].
processElevator(acc, i, commands, deltaTime, totalTime) ==
  LET stepped == step(acc.elevators[i], deltaTime, totalTime)
      IsOwn(c) == c.elevatorId = ElevatorIdOf[i]
      commanded == executeCommands(stepped, SelectSeq(commands, IsOwn), 1, totalTime)
      b == boardPassengers(commanded, acc.waitingPassengers, totalTime)
      boardedIds == {b.boarded[k].id : k \in 1 .. Len(b.boarded)}
      StillWaiting(p) == p.id \notin boardedIds
      d == disembarkPassengers(b.st, totalTime)
  IN  [elevators |-> [acc.elevators EXCEPT ![i] = d.st],
       waitingPassengers |-> IF Len(b.boarded) > 0
                             THEN SelectSeq(acc.waitingPassengers, StillWaiting)
                             ELSE acc.waitingPassengers,
       completedPassengers |-> acc.completedPassengers \o d.disembarked]

RECURSIVE elevatorLoop(_, _, _, _, _)
elevatorLoop(acc, i, commands, deltaTime, totalTime) ==
  IF i > Len(acc.elevators) THEN acc
  ELSE elevatorLoop(processElevator(acc, i, commands, deltaTime, totalTime),
                    i + 1, commands, deltaTime, totalTime)

waitingCountsOf(waitingPassengers) ==
  [f \in 1 .. FloorCount |->
     Cardinality({k \in 1 .. Len(waitingPassengers) :
                    waitingPassengers[k].startFloor = f - 1})]

\* SimulationEngine.step consulting the algorithm before the spawner.
engineStep_AlgorithmFirst(e, deltaTime, totalTime, draws, nextSerial) ==
  IF e.spawner = <<>> THEN e
  ELSE LET spawn == nextTick(Head(e.spawner), deltaTime, totalTime,
                             waitingCountsOf(e.waitingPassengers), draws, nextSerial)
           elevatorStates == [i \in 1 .. Len(e.elevators) |-> snapshotOf(e.elevators, i)]
           commands == onTick(elevatorStates, e.waitingPassengers, totalTime)
           waiting == e.waitingPassengers \o spawn.passengers
           r == elevatorLoop([elevators |-> e.elevators,
                              waitingPassengers |-> waiting,
                              completedPassengers |-> e.completedPassengers],
                             1, commands, deltaTime, totalTime)
       IN  [e EXCEPT !.spawner = <<spawn.sp>>,
                     !.elevators = r.elevators,
                     !.waitingPassengers = r.waitingPassengers,
                     !.completedPassengers = r.completedPassengers]

\* SimulationEngine.step; draws are the values the random source yields
\* and nextSerial numbers the passenger objects created.
engineStep(e, deltaTime, totalTime, draws, nextSerial) ==
  IF e.spawner = <<>> THEN e
  ELSE LET spawn == nextTick(Head(e.spawner), deltaTime, totalTime,
                             waitingCountsOf(e.waitingPassengers), draws, nextSerial)
           waiting == e.waitingPassengers \o spawn.passengers
           elevatorStates == [i \in 1 .. Len(e.elevators) |-> snapshotOf(e.elevators, i)]
           commands == onTick(elevatorStates, waiting, totalTime)
           r == elevatorLoop([elevators |-> e.elevators,
                              waitingPassengers |-> waiting,
                              completedPassengers |-> e.completedPassengers],
                             1, commands, deltaTime, totalTime)
       IN  [e EXCEPT !.spawner = <<spawn.sp>>,
                     !.elevators = r.elevators,
                     !.waitingPassengers = r.waitingPassengers,
                     !.completedPassengers = r.completedPassengers]

\* The callback of the armed interval timer.
intervalCallback(e, draws, nextSerial) ==
  LET k == Head(e.ticker)
  IN  IF k.isPausedState THEN e
      ELSE LET deltaTime == tickDeltaTime(k)
               totalTime == k.totalElapsedTime + deltaTime
               e1 == [e EXCEPT !.ticker = <<[k EXCEPT !.totalElapsedTime = totalTime]>>]
           IN  engineStep(e1, deltaTime, totalTime, draws, nextSerial)

onboardCount(e) ==
  LET RECURSIVE sum(_)
      sum(i) == IF i = 0 THEN 0 ELSE Len(e.elevators[i].passengers) + sum(i - 1)
  IN  sum(Len(e.elevators))

\* Averages are rounded down to whole time units.
calculateMetrics(e) ==
  LET completed == e.completedPassengers
      totalPassengers == Len(completed) + Len(e.waitingPassengers) + onboardCount(e)
      Picked(p) == p.pickupTime # <<>>
      Dropped(p) == p.dropoffTime # <<>> /\ p.pickupTime # <<>>
      waited == SelectSeq(completed, Picked)
      travelled == SelectSeq(completed, Dropped)
      RECURSIVE totalWaitTime(_), totalTravelTime(_)
      totalWaitTime(i) ==
        IF i = 0 THEN 0
        ELSE Head(waited[i].pickupTime) - waited[i].requestTime + totalWaitTime(i - 1)
      totalTravelTime(i) ==
        IF i = 0 THEN 0
        ELSE Head(travelled[i].dropoffTime) - Head(travelled[i].pickupTime)
             + totalTravelTime(i - 1)
  IN  IF Len(completed) = 0
      THEN [avgWaitTime |-> 0, avgTravelTime |-> 0,
            passengersServed |-> 0, totalPassengers |-> totalPassengers]
      ELSE [avgWaitTime |-> IF Len(waited) > 0
                            THEN totalWaitTime(Len(waited)) \div Len(waited) ELSE 0,
            avgTravelTime |-> IF Len(travelled) > 0
                              THEN totalTravelTime(Len(travelled)) \div Len(travelled)
                              ELSE 0,
            passengersServed |-> Len(completed),
            totalPassengers |-> totalPassengers]

(***************************************************************************)
(* History kept for the properties: the time stepped since the move in     *)
(* progress was accepted and the floor it started from, the time stepped   *)
(* since the doors last changed state while they are not closed, and       *)
(* whether the last call was a step that completed a move or changed the   *)
(* door state.                                                             *)
(***************************************************************************)
HistBound == FloorTravelTime + DoorOperationTime + DoorHoldTime + 5 * MaxDelta

Capped(n) == IF n > HistBound THEN HistBound ELSE n

HistAfter(s, t, dt, isStep) ==
  [moveElapsed |-> IF t.isMoving /\ s.isMoving
                   THEN Capped(hist.moveElapsed + dt) ELSE 0,
   moveFrom |-> IF ~t.isMoving THEN 0
                ELSE IF ~s.isMoving THEN s.currentFloor ELSE hist.moveFrom,
   doorElapsed |-> IF t.doorState = CLOSED \/ t.doorState # s.doorState THEN 0
                   ELSE Capped(hist.doorElapsed + dt),
   arrived |-> isStep /\ s.isMoving /\ ~t.isMoving,
   doorChanged |-> isStep /\ t.doorState # s.doorState]

(***************************************************************************)
(* The state machine: one action per public operation                      *)
(***************************************************************************)
Init ==
  /\ \E initialFloor \in FloorArgs : state = InitialState(initialFloor)
  /\ call = "none"
  /\ hist = [moveElapsed |-> 0, moveFrom |-> 0, doorElapsed |-> 0,
             arrived |-> FALSE, doorChanged |-> FALSE]
  /\ engine = <<>>
  /\ ghost = <<>>
  /\ sched = <<>>
  /\ probe = <<>>

ExecuteCommandWith(command, currentTime) ==
  LET r == executeCommand(state, command, currentTime)
  IN  /\ state' = r.st
      /\ call' = IF r.ok THEN "accepted" ELSE "rejected"
      /\ hist' = HistAfter(state, r.st, 0, FALSE)
      /\ UNCHANGED <<engine, ghost, sched, probe>>

ExecuteCommand ==
  \E command \in Commands, currentTime \in Times :
    ExecuteCommandWith(command, currentTime)

StepWith(deltaTime, currentTime) ==
  LET t == step(state, deltaTime, currentTime)
  IN  /\ state' = t
      /\ call' = "step"
      /\ hist' = HistAfter(state, t, deltaTime, TRUE)
      /\ UNCHANGED <<engine, ghost, sched, probe>>

Step ==
  \E deltaTime \in DeltaTimes, currentTime \in Times :
    StepWith(deltaTime, currentTime)

AddPickupRequest ==
  \E floor \in FloorArgs :
    /\ state' = addPickupRequest(state, floor)
    /\ call' = "none"
    /\ hist' = HistAfter(state, state', 0, FALSE)
    /\ UNCHANGED <<engine, ghost, sched, probe>>

AddDropoffRequest ==
  \E floor \in FloorArgs :
    /\ state' = addDropoffRequest(state, floor)
    /\ call' = "none"
    /\ hist' = HistAfter(state, state', 0, FALSE)
    /\ UNCHANGED <<engine, ghost, sched, probe>>

BoardPassengersWith(candidates, currentTime) ==
  LET r == boardPassengers(state, candidates, currentTime)
  IN  /\ state' = r.st
      /\ call' = IF Len(r.boarded) > 0 THEN "boarded" ELSE "none"
      /\ hist' = HistAfter(state, r.st, 0, FALSE)
      /\ UNCHANGED <<engine, ghost, sched, probe>>

BoardPassengers ==
  \E candidates \in CandidateLists, currentTime \in Times :
    BoardPassengersWith(candidates, currentTime)

DisembarkPassengersWith(currentTime) ==
  LET r == disembarkPassengers(state, currentTime)
  IN  /\ state' = r.st
      /\ call' = IF Len(r.disembarked) > 0 THEN "disembarked" ELSE "none"
      /\ hist' = HistAfter(state, r.st, 0, FALSE)
      /\ UNCHANGED <<engine, ghost, sched, probe>>

DisembarkPassengers ==
  \E currentTime \in Times : DisembarkPassengersWith(currentTime)

Next ==
  \/ ExecuteCommand
  \/ Step
  \/ AddPickupRequest
  \/ AddDropoffRequest
  \/ BoardPassengers
  \/ DisembarkPassengers

Spec == Init /\ [][Next]_vars

(***************************************************************************)
(* The engine's state machine: one action per public method and one for    *)
(* the interval timer.  ghost.spawned counts the passenger objects created *)
(* since the pools were last emptied and ghost.speed is the multiplier of  *)
(* the last setSpeed (100, the default speed, before any).                 *)
(***************************************************************************)
Min(a, b) == IF a < b THEN a ELSE b

EngineConfigs ==
  [floors : {FloorCount}, elevators : 0 .. MaxElevators, spawnRate : SpawnRates]

\* The partial configurations given to updateConfig.
ConfigUpdates ==
  [floors : {<<>>, <<FloorCount>>},
   elevators : {<<>>} \cup {<<n>> : n \in 0 .. MaxElevators},
   spawnRate : {<<>>} \cup {<<r>> : r \in SpawnRates}]

\* What the random source can yield for passenger number serial: ids are
\* only ever compared for equality, so the k-th passenger object takes one
\* of the first k ids.
DrawsOf(serial) ==
  {d \in [startFloor : Floors, destinationFloor : Floors,
          id : 1 .. Min(NumIds, serial)] :
     d.destinationFloor \in selectDestinationFloor(d.startFloor)}

RECURSIVE DrawSeqs(_, _)
DrawSeqs(n, serial) ==
  IF n <= 0 THEN {<<>>}
  ELSE {<<>>} \cup {<<d>> \o rest : d \in DrawsOf(serial),
                                    rest \in DrawSeqs(n - 1, serial + 1)}

\* The Poisson count is zero for a rate that is not positive.
SpawnDraws ==
  IF engine.spawner # <<>> /\ engine.ticker # <<>>
     /\ ~Head(engine.ticker).isPausedState
     /\ Head(engine.spawner).spawnRate > 0
     /\ Head(engine.ticker).totalElapsedTime + tickDeltaTime(Head(engine.ticker))
          \in SpawnTimes
  THEN DrawSeqs(MaxSpawned - ghost.spawned, ghost.spawned + 1)
  ELSE {<<>>}

\* The passengers the spawner makes in the tick that yields draws.
spawnedInTick(e, draws, nextSerial) ==
  IF e.spawner = <<>> \/ Head(e.ticker).isPausedState THEN <<>>
  ELSE nextTick(Head(e.spawner), tickDeltaTime(Head(e.ticker)),
                Head(e.ticker).totalElapsedTime + tickDeltaTime(Head(e.ticker)),
                waitingCountsOf(e.waitingPassengers), draws, nextSerial).passengers

GhostAfter(e) ==
  IF e.status = SIM_IDLE /\ engine.status # SIM_IDLE
  THEN [ghost EXCEPT !.spawned = 0] ELSE ghost

EngineInit ==
  /\ state = InitialState(0)
  /\ call = "none"
  /\ hist = [moveElapsed |-> 0, moveFrom |-> 0, doorElapsed |-> 0,
             arrived |-> FALSE, doorChanged |-> FALSE]
  /\ \E config \in EngineConfigs : engine = NewEngine(config)
  /\ ghost = [spawned |-> 0, speed |-> 100]
  /\ sched = <<>>
  /\ probe = <<>>

Start ==
  /\ engine' = engineStart(engine)
  /\ UNCHANGED <<state, call, hist, ghost, sched, probe>>

Pause ==
  /\ engine' = enginePause(engine)
  /\ UNCHANGED <<state, call, hist, ghost, sched, probe>>

Resume ==
  /\ engine' = engineResume(engine)
  /\ UNCHANGED <<state, call, hist, ghost, sched, probe>>

Reset ==
  /\ engine' = engineReset(engine)
  /\ ghost' = GhostAfter(engine')
  /\ UNCHANGED <<state, call, hist, sched, probe>>

UpdateConfigWith(newConfig) ==
  /\ engine' = updateConfig(engine, newConfig)
  /\ ghost' = GhostAfter(engine')
  /\ UNCHANGED <<state, call, hist, sched, probe>>

UpdateConfig == \E newConfig \in ConfigUpdates : UpdateConfigWith(newConfig)

SetSpeedWith(multiplier) ==
  /\ engine' = setSpeed(engine, multiplier)
  /\ ghost' = [ghost EXCEPT !.speed = multiplier]
  /\ UNCHANGED <<state, call, hist, sched, probe>>

SetSpeed == \E multiplier \in Multipliers : SetSpeedWith(multiplier)

TickWith(draws) ==
  /\ engine' = intervalCallback(engine, draws, ghost.spawned + 1)
  /\ ghost' = [ghost EXCEPT !.spawned =
                 @ + Len(spawnedInTick(engine, draws, ghost.spawned + 1))]
  /\ UNCHANGED <<state, call, hist, sched, probe>>

TimerArmed == engine.ticker # <<>> /\ Head(engine.ticker).intervalId # 0

TimeAfterTick ==
  Head(engine.ticker).totalElapsedTime + tickDeltaTime(Head(engine.ticker))

\* The armed interval timer fires.
Tick ==
  /\ TimerArmed
  /\ TimeAfterTick <= MaxLifecycleTime
  /\ \E draws \in SpawnDraws : TickWith(draws)

EngineNext ==
  \/ Start
  \/ Pause
  \/ Resume
  \/ Reset
  \/ UpdateConfig
  \/ SetSpeed
  \/ Tick

\* The engine under every sequence of calls, each run followed for
\* MaxLifecycleTime.
EngineSpec == EngineInit /\ [][EngineNext]_vars

RunInit ==
  /\ EngineInit
  /\ engine.config.elevators > 0
  /\ engine.config.spawnRate > 0

\* The speed is changed while the run is younger than SpeedWindow.
RunSetSpeed ==
  /\ engine.ticker # <<>>
  /\ Head(engine.ticker).totalElapsedTime <= SpeedWindow
  /\ \E multiplier \in Multipliers : SetSpeedWith(multiplier)

RunTick ==
  /\ TimerArmed
  /\ TimeAfterTick <= MaxRunTime
  /\ \E draws \in SpawnDraws : TickWith(draws)

RunNext ==
  \/ Start
  \/ RunSetSpeed
  \/ RunTick

\* One run of a valid configuration, followed for MaxRunTime.
RunSpec == RunInit /\ [][RunNext]_vars

(***************************************************************************)
(* Properties                                                              *)
(***************************************************************************)

\* C1: in every reachable state the car is on a floor of the building,
\* 0 <= currentFloor <= floorCount - 1, and carries at most capacity
\* passengers.
C1_FloorAndCapacityBounds ==
  /\ state.currentFloor >= 0
  /\ state.currentFloor <= FloorCount - 1
  /\ Len(state.passengers) <= Capacity

\* A full car at the top floor whose last command was rejected.
C1_Witness ==
  /\ state.currentFloor = FloorCount - 1
  /\ Len(state.passengers) = Capacity
  /\ ~state.isMoving
  /\ call = "rejected"

\* C2: the doors are never open or opening while the car is moving between
\* floors.
C2_DoorsShutWhileMoving ==
  state.isMoving => state.doorState \notin {OPEN, OPENING}

\* A car part-way through a move that has just rejected a command.
C2_Witness ==
  /\ state.isMoving
  /\ hist.moveElapsed > 0
  /\ state.currentFloor \in state.requestedFloors
  /\ call = "rejected"

\* C3: a call of executeCommand that returns false leaves the whole internal
\* state (hence the getState() snapshot, the timers, the target floor and
\* isMoving) as it was; commands addressed to another elevator and unknown
\* actions always return false.
C3_RejectedCommandChangesNothing ==
  [][/\ call' = "rejected" => state' = state
     /\ call' = "accepted" =>
          \E action \in ElevatorAction, currentTime \in Times :
            ExecuteCommandWith([elevatorId |-> SelfId, action |-> action],
                               currentTime)]_vars

\* A command has just been rejected by a car that had accepted one before
\* and whose doors are in motion.
C3_Witness ==
  /\ call = "rejected"
  /\ state.doorState = CLOSING
  /\ state.actionStartTime # 0
  /\ state.requestedFloors # {}

\* The command that asks this car for the given action.
Own(action) == [elevatorId |-> SelfId, action |-> action]

\* C4: MOVE_UP (MOVE_DOWN) is accepted iff the car is not moving, its doors
\* are closed and it is not at the top (bottom) floor; on acceptance the
\* direction becomes up (down) and the move starts towards the adjacent
\* floor; currentFloor stays as it is until the deltaTime stepped since the
\* acceptance reaches floorTravelTime, and the step in which it does puts
\* the car exactly one floor up (down) and ends the move.
C4_MoveAccepted ==
  /\ \A currentTime \in Times :
       ExecuteCommandWith(Own(MOVE_UP), currentTime) =>
         LET can == /\ ~state.isMoving
                    /\ state.doorState = CLOSED
                    /\ state.currentFloor < FloorCount - 1
         IN  /\ (call' = "accepted") <=> can
             /\ can => /\ state'.direction = UP
                        /\ state'.isMoving
                        /\ state'.targetFloor = <<state.currentFloor + 1>>
                        /\ state'.currentFloor = state.currentFloor
  /\ \A currentTime \in Times :
       ExecuteCommandWith(Own(MOVE_DOWN), currentTime) =>
         LET can == /\ ~state.isMoving
                    /\ state.doorState = CLOSED
                    /\ state.currentFloor > 0
         IN  /\ (call' = "accepted") <=> can
             /\ can => /\ state'.direction = DOWN
                        /\ state'.isMoving
                        /\ state'.targetFloor = <<state.currentFloor - 1>>
                        /\ state'.currentFloor = state.currentFloor

C4_MoveTimed ==
  /\ state.isMoving =>
       \A deltaTime \in DeltaTimes, currentTime \in Times :
         StepWith(deltaTime, currentTime) =>
           IF hist.moveElapsed + deltaTime < FloorTravelTime
           THEN /\ state'.isMoving
                /\ state'.currentFloor = hist.moveFrom
                /\ state'.direction = state.direction
           ELSE /\ ~state'.isMoving
                /\ state'.currentFloor =
                     IF state.direction = UP THEN hist.moveFrom + 1
                     ELSE hist.moveFrom - 1
  /\ (state'.currentFloor # state.currentFloor \/ (state.isMoving /\ ~state'.isMoving))
       => /\ call' = "step"
          /\ state.isMoving
  /\ (state.isMoving /\ call' # "step") => state'.direction = state.direction

\* C4: every transition respects the acceptance rule of MOVE_UP and
\* MOVE_DOWN (C4_MoveAccepted) and the timing of the move in progress
\* (C4_MoveTimed): the car changes floor only in the step in which the
\* stepped deltaTime reaches floorTravelTime, and then by exactly one floor.
C4_TimedMove == [][C4_MoveAccepted /\ C4_MoveTimed]_vars

\* A step has just completed a downward move: the car is one floor below
\* the floor it left.
C4_Witness ==
  /\ hist.arrived
  /\ call = "step"
  /\ state.currentFloor = FloorCount - 2
  /\ state.moveTimer < 0
  /\ state.direction = DOWN

\* C5: OPEN_DOORS is accepted iff the car is not moving and the doors are
\* closed or closing, and then the doors are opening with a full
\* doorOperationTime timer; CLOSE_DOORS is accepted iff the car is not
\* moving and the doors are open or opening, and then the doors are closing
\* with a full doorOperationTime timer; otherwise the command returns false.
C5_DoorCommands ==
  [][/\ \A currentTime \in Times :
          ExecuteCommandWith(Own(OPEN_DOORS), currentTime) =>
            LET can == ~state.isMoving /\ state.doorState \in {CLOSED, CLOSING}
            IN  /\ (call' = "accepted") <=> can
                /\ (call' = "rejected") <=> ~can
                /\ can => /\ state'.doorState = OPENING
                           /\ state'.doorTimer = DoorOperationTime
     /\ \A currentTime \in Times :
          ExecuteCommandWith(Own(CLOSE_DOORS), currentTime) =>
            LET can == ~state.isMoving /\ state.doorState \in {OPEN, OPENING}
            IN  /\ (call' = "accepted") <=> can
                /\ (call' = "rejected") <=> ~can
                /\ can => /\ state'.doorState = CLOSING
                           /\ state'.doorTimer = DoorOperationTime]_vars

\* CLOSE_DOORS has just been accepted while the doors were part-way open:
\* they are closing with a full timer.
C5_Witness ==
  /\ call = "accepted"
  /\ state.doorState = CLOSING
  /\ state.doorTimer = DoorOperationTime
  /\ ~hist.doorChanged
  /\ hist.doorElapsed = 0

\* C6: open doors start to close by themselves in the step in which the
\* deltaTime stepped since they became open reaches doorHoldTime, and not
\* before, so the doors are never open with doorHoldTime or more of stepped
\* time behind them.
C6_AutoClose ==
  [][/\ state.doorState = OPEN =>
          \A deltaTime \in DeltaTimes, currentTime \in Times :
            StepWith(deltaTime, currentTime) =>
              IF hist.doorElapsed + deltaTime >= DoorHoldTime
              THEN state'.doorState = CLOSING
              ELSE state'.doorState = OPEN
     /\ state'.doorState = OPEN => hist'.doorElapsed < DoorHoldTime]_vars

\* A step, not a command, has just started closing the doors.
C6_Witness ==
  /\ call = "step"
  /\ hist.doorChanged
  /\ state.doorState = CLOSING
  /\ state.doorTimer = DoorOperationTime

\* C7: opening (closing) doors stay opening (closing) under step until the
\* deltaTime stepped since they entered that state reaches
\* doorOperationTime, and in that step become open (closed); on becoming
\* open the door timer is set to doorHoldTime.  Apart from step, only an
\* accepted command changes the door state.
C7_DoorOperationTimed ==
  [][/\ state.doorState \in {OPENING, CLOSING} =>
          \A deltaTime \in DeltaTimes, currentTime \in Times :
            StepWith(deltaTime, currentTime) =>
              IF hist.doorElapsed + deltaTime < DoorOperationTime
              THEN state'.doorState = state.doorState
              ELSE IF state.doorState = OPENING
                   THEN state'.doorState = OPEN /\ state'.doorTimer = DoorHoldTime
                   ELSE state'.doorState = CLOSED
     /\ state'.doorState # state.doorState => call' \in {"step", "accepted"}]_vars

\* A step has just turned opening doors into open doors holding for
\* doorHoldTime.
C7_Witness ==
  /\ call = "step"
  /\ hist.doorChanged
  /\ state.doorState = OPEN
  /\ state.doorTimer = DoorHoldTime

\* C8: when a step completes a move, currentFloor becomes the move's target
\* floor and isMoving clears; the doors start opening in that step if the
\* floor reached is in requestedFloors, and stay closed if it is not.
C8_Arrival ==
  [][(state.isMoving /\ ~state'.isMoving) =>
       /\ call' = "step"
       /\ state'.currentFloor = Head(state.targetFloor)
       /\ state'.targetFloor = <<>>
       /\ IF state'.currentFloor \in state.requestedFloors
          THEN state'.doorState = OPENING /\ state'.doorTimer = DoorOperationTime
          ELSE state'.doorState = CLOSED]_vars

\* A step has just completed a move to the only requested floor and the
\* doors are opening.
C8_Witness ==
  /\ call = "step"
  /\ hist.arrived
  /\ state.doorState = OPENING
  /\ state.currentFloor \in state.requestedFloors
  /\ Cardinality(state.requestedFloors) = 1

\* C9 as stated: a step of a stationary car with closed doors at a floor
\* with a registered pickup request starts opening the doors.
C9_IdleAutoOpen ==
  [][(/\ ~state.isMoving
      /\ state.doorState = CLOSED
      /\ state.currentFloor \in state.pickupFloors
      /\ Step)
     => state'.doorState = OPENING]_vars

\* C9 amended: a step of a stationary car with closed doors leaves the doors
\* closed, pickup request at the current floor or not; OPEN_DOORS is
\* accepted in that state and starts the opening, which step then completes
\* when the stepped deltaTime reaches doorOperationTime.
C9_IdleNeedsOpenCommand ==
  [][/\ (~state.isMoving /\ state.doorState = CLOSED) =>
          /\ Step => state'.doorState = CLOSED
          /\ \A currentTime \in Times :
               ExecuteCommandWith(Own(OPEN_DOORS), currentTime) =>
                 /\ call' = "accepted"
                 /\ state'.doorState = OPENING
                 /\ state'.doorTimer = DoorOperationTime
     /\ state.doorState = OPENING =>
          \A deltaTime \in DeltaTimes, currentTime \in Times :
            StepWith(deltaTime, currentTime) =>
              state'.doorState =
                IF hist.doorElapsed + deltaTime >= DoorOperationTime
                THEN OPEN ELSE OPENING]_vars

\* A step has just left the doors of a stationary car closed although that
\* floor has a pickup request.
C9_Witness ==
  /\ call = "step"
  /\ ~state.isMoving
  /\ ~hist.arrived
  /\ ~hist.doorChanged
  /\ state.doorState = CLOSED
  /\ state.direction = IDLE
  /\ state.currentFloor \in state.pickupFloors

\* C10: a step that ends mid-move leaves the direction as it was.  A step
\* that ends with the car stationary recomputes it from requestedFloors and
\* the floor the car is then on: idle if there is no request; unchanged if
\* it was up (down) and some requested floor lies strictly above (below);
\* so it changes only when no requested floor lies in the direction it had.
C10_DirectionRecomputed ==
  [][Step =>
       LET floor == state'.currentFloor
           above == \E f \in state'.requestedFloors : f > floor
           below == \E f \in state'.requestedFloors : f < floor
       IN  IF state'.isMoving THEN state'.direction = state.direction
           ELSE /\ state'.requestedFloors = {} => state'.direction = IDLE
                /\ (state.direction = UP /\ above) => state'.direction = UP
                /\ (state.direction = DOWN /\ below) => state'.direction = DOWN
                /\ state'.direction # state.direction =>
                     /\ ~(state.direction = UP /\ above)
                     /\ ~(state.direction = DOWN /\ below)
                /\ state'.direction = UP => above
                /\ state'.direction = DOWN => below]_vars

\* A step has just kept a stationary car heading down with requests on
\* both sides of it.
C10_Witness ==
  /\ call = "step"
  /\ ~state.isMoving
  /\ state.direction = DOWN
  /\ \E f \in state.requestedFloors : f > state.currentFloor
  /\ \E f \in state.requestedFloors : f < state.currentFloor

\* C11: a call boardPassengers(candidates, t) changes nothing and returns
\* the empty list unless the doors are open and the car is not full;
\* otherwise every returned passenger is a candidate whose startFloor is
\* currentFloor, stamped with pickupTime = t, the returned list is no longer
\* than capacity minus the onboard count before the call, it is appended to
\* the onboard list, and each returned passenger's destination is a
\* registered dropoff request after the call.
C11_Boarding ==
  [][call' \in {"boarded", "none"} =>
     \A candidates \in CandidateLists, currentTime \in Times :
       BoardPassengersWith(candidates, currentTime) =>
         LET boarded == boardPassengers(state, candidates, currentTime).boarded
             room == Capacity - Len(state.passengers)
         IN  IF state.doorState # OPEN \/ room <= 0
             THEN state' = state /\ boarded = <<>>
             ELSE /\ \A k \in 1 .. Len(boarded) :
                       \E j \in 1 .. Len(candidates) :
                         /\ candidates[j].startFloor = state.currentFloor
                         /\ boarded[k] =
                              [candidates[j] EXCEPT !.pickupTime = <<currentTime>>]
                  /\ Len(boarded) <= room
                  /\ state'.passengers = state.passengers \o boarded
                  /\ \A k \in 1 .. Len(boarded) :
                       /\ boarded[k].destinationFloor \in state'.dropoffFloors
                       /\ boarded[k].destinationFloor \in state'.requestedFloors]_vars

\* A call has just boarded a passenger at its start floor and filled the
\* car; the passenger's destination is a dropoff request.
C11_Witness ==
  /\ call = "boarded"
  /\ state.doorState = OPEN
  /\ Len(state.passengers) = Capacity
  /\ LET p == state.passengers[Len(state.passengers)]
     IN  /\ p.startFloor = state.currentFloor
         /\ p.pickupTime # <<>>
         /\ p.destinationFloor \in state.dropoffFloors

Now == Head(engine.ticker).totalElapsedTime

\* The passengers car c took aboard at time t.
BoardedAt(c, t) ==
  {k \in 1 .. Len(c.passengers) : c.passengers[k].pickupTime = <<t>>}

\* C13 (a): the algorithm of a tick sees the passengers spawned in that tick.
\* A car that stands idle and empty with its doors closed while nobody
\* waits answers the nearest of the passengers the tick spawns in the same
\* tick: it starts opening its doors for a call at its own floor and starts
\* moving one floor towards a call elsewhere.
C13_SpawnSeen(draws, i) ==
  LET c == engine.elevators[i]
      d == engine'.elevators[i]
      new == spawnedInTick(engine, draws, ghost.spawned + 1)
      f == Head(findNearestCall(getState(c), new))
  IN  (/\ Len(new) > 0
       /\ Len(engine.waitingPassengers) = 0
       /\ Len(c.passengers) = 0
       /\ ~c.isMoving
       /\ c.doorState = CLOSED
       /\ c.direction = IDLE)
      => IF f = c.currentFloor
         THEN d.doorState = OPENING /\ ~d.isMoving
         ELSE /\ d.isMoving
              /\ d.targetFloor = <<IF f > c.currentFloor THEN c.currentFloor + 1
                                   ELSE c.currentFloor - 1>>

\* C13 (b): a car is stepped before its commands are executed.  A car that
\* arrives in this tick at a floor nobody onboard asked for, with its
\* nearest destination further on, starts its next move in the same tick.
C13_StepBeforeCommand(i) ==
  LET c == engine.elevators[i]
      d == engine'.elevators[i]
      g == Head(c.targetFloor)
      dest == Head(findNearestDestination(getState(c)))
  IN  (/\ c.isMoving
       /\ c.moveTimer <= tickDeltaTime(Head(engine.ticker))
       /\ Len(c.passengers) > 0
       /\ g \notin c.requestedFloors
       /\ (dest > g /\ g > c.currentFloor) \/ (dest < g /\ g < c.currentFloor))
      => /\ d.isMoving
         /\ d.currentFloor = g
         /\ d.targetFloor = <<IF dest > g THEN g + 1 ELSE g - 1>>

\* C13 (c): the commands of a car are executed before it boards.  The
\* snapshot of a car whose doors are open draws a close command, so the car
\* ends the tick with its doors closing and with the passengers it had.
C13_CommandBeforeBoard(i) ==
  LET c == engine.elevators[i]
      d == engine'.elevators[i]
  IN  c.doorState = OPEN
      => d.doorState = CLOSING /\ d.passengers = c.passengers

\* C13 (d): a car boards before it disembarks.  A full car whose doors come
\* open in this tick takes nobody aboard in it, even when a passenger
\* onboard leaves at this floor.
C13_BoardBeforeDisembark(i) ==
  LET c == engine.elevators[i]
      d == engine'.elevators[i]
  IN  (/\ c.doorState = OPENING
       /\ d.doorState = OPEN
       /\ Len(c.passengers) = Capacity)
      => d.passengers = SelectSeq(c.passengers,
                                  LAMBDA p : p.destinationFloor # c.currentFloor)

\* C13 (e): the cars are processed in index order.  When a car boards at a
\* floor at which a car of lower index has opened its doors in this tick,
\* the car of lower index is full.
C13_IndexOrder(i, j) ==
  LET ci == engine.elevators[i]
      di == engine'.elevators[i]
      dj == engine'.elevators[j]
  IN  (/\ i < j
       /\ ci.doorState = OPENING
       /\ di.doorState = OPEN
       /\ dj.currentFloor = di.currentFloor
       /\ BoardedAt(dj, Now') # {})
      => Len(di.passengers) = Capacity

\* C13: in each tick the spawner runs and its passengers join the waiting
\* list before the algorithm is consulted, and the cars are then processed
\* in index order, each one stepped, commanded, boarded and disembarked in
\* that order.
C13_TickOrder ==
  [][\A draws \in SpawnDraws :
       (TimerArmed /\ ~Head(engine.ticker).isPausedState /\ TickWith(draws))
       => \A i \in 1 .. Len(engine.elevators) :
            /\ C13_SpawnSeen(draws, i)
            /\ C13_StepBeforeCommand(i)
            /\ C13_CommandBeforeBoard(i)
            /\ C13_BoardBeforeDisembark(i)
            /\ \A j \in 1 .. Len(engine.elevators) : C13_IndexOrder(i, j)]_vars

\* A passenger spawned in the last tick waits at the floor of a car that
\* started opening its doors in that tick.
C13_Witness ==
  /\ engine.ticker # <<>>
  /\ \E i \in 1 .. Len(engine.elevators), k \in 1 .. Len(engine.waitingPassengers) :
       /\ engine.waitingPassengers[k].requestTime = Now
       /\ engine.waitingPassengers[k].startFloor = engine.elevators[i].currentFloor
       /\ engine.elevators[i].doorState = OPENING
       /\ engine.elevators[i].doorTimer = DoorOperationTime

\* The passenger objects in the waiting list and onboard the cars, as
\* <<place, position, serial>>; place 0 is the waiting list, place i car i.
Held ==
  {<<0, k, engine.waitingPassengers[k].serial>> :
     k \in 1 .. Len(engine.waitingPassengers)}
  \cup UNION {{<<i, k, engine.elevators[i].passengers[k].serial>> :
                 k \in 1 .. Len(engine.elevators[i].passengers)} :
              i \in 1 .. Len(engine.elevators)}

\* C14: the passengers a car boards are removed from the waiting list
\* before the next car boards, so no passenger is onboard two cars, twice
\* onboard one car, or both waiting and onboard.
C14_BoardedOnce ==
  \A x, y \in Held : x[3] = y[3] => x = y

\* Two cars have their doors open at one floor; the first has just boarded a
\* passenger there, the second is empty and nobody waits at that floor.
C14_Witness ==
  /\ Len(engine.elevators) >= 2
  /\ engine.elevators[1].doorState = OPEN
  /\ engine.elevators[2].doorState = OPEN
  /\ engine.elevators[1].currentFloor = engine.elevators[2].currentFloor
  /\ BoardedAt(engine.elevators[1], Now) # {}
  /\ Len(engine.elevators[2].passengers) = 0
  /\ \A k \in 1 .. Len(engine.waitingPassengers) :
       engine.waitingPassengers[k].startFloor # engine.elevators[1].currentFloor

\* The places in which passenger object n is held: waiting, onboard a car,
\* or completed (place -1).
PlacesOf(n) ==
  {x \in Held : x[3] = n}
  \cup {<<-1, k, n>> : k \in {j \in 1 .. Len(engine.completedPassengers) :
                              engine.completedPassengers[j].serial = n}}

\* C15: each passenger spawned since the pools were last emptied is in
\* exactly one of the waiting list, the onboard list of exactly one car and
\* the completed list, and the total the metrics report is the number of
\* passengers spawned.
C15_EveryPassengerHeldOnce ==
  /\ \A n \in 1 .. ghost.spawned : Cardinality(PlacesOf(n)) = 1
  /\ calculateMetrics(engine).totalPassengers = ghost.spawned

\* Every passenger object the engine holds.
AllPassengers ==
  {engine.waitingPassengers[k] : k \in 1 .. Len(engine.waitingPassengers)}
  \cup {engine.completedPassengers[k] : k \in 1 .. Len(engine.completedPassengers)}
  \cup UNION {{engine.elevators[i].passengers[k] :
                 k \in 1 .. Len(engine.elevators[i].passengers)} :
              i \in 1 .. Len(engine.elevators)}

\* C16: a pickupTime that is set is not before the requestTime, a
\* dropoffTime that is set is not before the pickupTime, and the average
\* wait and travel times of the metrics are not negative.
C16_TimesOrdered ==
  /\ \A p \in AllPassengers :
       /\ p.pickupTime # <<>> => Head(p.pickupTime) >= p.requestTime
       /\ p.dropoffTime # <<>> =>
            p.pickupTime # <<>> /\ Head(p.dropoffTime) >= Head(p.pickupTime)
  /\ calculateMetrics(engine).avgWaitTime >= 0
  /\ calculateMetrics(engine).avgTravelTime >= 0

\* A passenger has completed a journey after the speed of the run was
\* changed, and the averages are positive.
C16_Witness ==
  /\ Len(engine.completedPassengers) > 0
  /\ Head(engine.ticker).intervalMs # 100000 \div (BaseTickRate * 100)
  /\ engine.completedPassengers[1].requestTime > 0
  /\ Head(engine.completedPassengers[1].pickupTime)
       > engine.completedPassengers[1].requestTime
  /\ Head(engine.completedPassengers[1].dropoffTime)
       > Head(engine.completedPassengers[1].pickupTime)
  /\ calculateMetrics(engine).avgWaitTime > 0
  /\ calculateMetrics(engine).avgTravelTime > 0

\* The idle baseline: no ticker, hence no armed timer and no further tick,
\* no cars, no spawner and empty pools.
IsBaseline(e) ==
  /\ e.status = SIM_IDLE
  /\ e.ticker = <<>>
  /\ e.elevators = <<>>
  /\ e.spawner = <<>>
  /\ e.waitingPassengers = <<>>
  /\ e.completedPassengers = <<>>

\* C17, reset: whatever the status, reset leaves the idle baseline and the
\* configuration as it was.
C17_Reset ==
  Reset => IsBaseline(engine') /\ engine'.config = engine.config

\* C17, updateConfig: a call that changes the number of floors or of cars
\* while the engine is running or paused leaves the idle baseline.
C17_UpdateConfig ==
  \A newConfig \in ConfigUpdates :
    (/\ engine.status \in {SIM_RUNNING, SIM_PAUSED}
     /\ \/ mergeConfig(engine.config, newConfig).floors # engine.config.floors
        \/ mergeConfig(engine.config, newConfig).elevators # engine.config.elevators
     /\ UpdateConfigWith(newConfig))
    => IsBaseline(engine')

\* C17: reset() from any status stops the scheduler, discards the cars, the
\* spawner and both pools and leaves the engine idle with no tick to come,
\* and an updateConfig that changes floors or the number of cars while
\* running or paused does the same.
C17_ResetAndReconfigure == [][C17_Reset /\ C17_UpdateConfig]_vars

\* Ticks are delivered: the interval timer is armed and its callback is not
\* held back by the pause flag.
TicksDelivered(e) ==
  /\ e.ticker # <<>>
  /\ Head(e.ticker).intervalId # 0
  /\ tickerIsRunning(Head(e.ticker))

\* C18: start() called on an idle engine starts a run, and called on an
\* engine paused in a run it resumes the run: the status is running and
\* ticks are delivered again, exactly as after resume().
C18_StartResumes ==
  [][Start =>
       /\ engine.status = SIM_IDLE =>
            engine'.status = SIM_RUNNING /\ TicksDelivered(engine')
       /\ (engine.status = SIM_PAUSED /\ engine.ticker # <<>>
             /\ Head(engine.ticker).isPausedState) =>
            /\ engine'.status = SIM_RUNNING
            /\ TicksDelivered(engine')
            /\ engine' = engineResume(engine)]_vars

\* The documented ranges of a configuration.
ValidConfig(config) ==
  /\ config.floors \in 3 .. 60
  /\ config.elevators \in 1 .. 8
  /\ config.spawnRate > 0

\* C19: a configuration with floors outside [3,60], elevators outside [1,8]
\* or a spawn rate that is not positive, given to the constructor or to
\* updateConfig, is rejected: start() on it creates no cars and does not
\* make the status running.
C19_InvalidConfigNotStarted ==
  [][(Start /\ engine.status = SIM_IDLE /\ ~ValidConfig(engine.config))
       => engine'.status # SIM_RUNNING /\ engine'.elevators = <<>>]_vars

\* C20: whatever the status was when setSpeed(m) was last called, a ticker
\* that exists runs at 10 x m ticks per second (10 ticks per second before
\* any setSpeed): that is its tick rate, and the period of its armed timer.
C20_RateFollowsSpeed ==
  engine.ticker # <<>> =>
    /\ getTickRate(Head(engine.ticker)) = BaseTickRate * ghost.speed
    /\ Head(engine.ticker).intervalId \in {0, 100000 \div (BaseTickRate * ghost.speed)}

\* C21: an updateConfig call that changes only the spawn rate, to a rate
\* that is not negative, while a run is in progress or paused, hands the
\* rate to the live spawner and keeps the run: status, ticker, cars and both
\* pools stay as they were, also when the call carries the current floors
\* and elevators alongside the rate.
C21_SpawnRateOnly ==
  [][\A newConfig \in ConfigUpdates :
       (/\ engine.status \in {SIM_RUNNING, SIM_PAUSED}
        /\ engine.spawner # <<>>
        /\ newConfig.spawnRate # <<>>
        /\ Head(newConfig.spawnRate) >= 0
        /\ mergeConfig(engine.config, newConfig).floors = engine.config.floors
        /\ mergeConfig(engine.config, newConfig).elevators = engine.config.elevators
        /\ UpdateConfigWith(newConfig))
       => /\ engine'.spawner # <<>>
          /\ Head(engine'.spawner).spawnRate = Head(newConfig.spawnRate)
          /\ engine'.status = engine.status
          /\ engine'.ticker = engine.ticker
          /\ engine'.elevators = engine.elevators
          /\ engine'.waitingPassengers = engine.waitingPassengers
          /\ engine'.completedPassengers = engine.completedPassengers]_vars

(***************************************************************************)
(* The specification of a ticker on its own: either implementation, with   *)
(* or without requestAnimationFrame, its operations called at any instant, *)
(* the wall clock advancing, and an armed timer firing at or after the     *)
(* instant it is due.  sched.tick and sched.log hold what the last step    *)
(* delivered.  since, atPause, stopped and restarted are history: the      *)
(* instant of the last delivery, start or resume (or of the resetTime that *)
(* restarted PrecisionTicker's measure), the total time at the             *)
(* pause since the last delivery if there was one, whether stop was called *)
(* since the last delivery, and whether start followed it.  A delivered    *)
(* tick carries the history it came after: the wall time elapsed since     *)
(* `since', atPause and restarted.                                         *)
(***************************************************************************)
TimerDelay(s) ==
  IF s.impl = "precision" THEN s.tk.timeoutId ELSE s.tk.intervalId

FrameArmed(s) == s.impl = "precision" /\ s.tk.animationFrameId # 0

TickerInit ==
  /\ state = InitialState(0)
  /\ call = "none"
  /\ hist = [moveElapsed |-> 0, moveFrom |-> 0, doorElapsed |-> 0,
             arrived |-> FALSE, doorChanged |-> FALSE]
  /\ engine = <<>>
  /\ ghost = <<>>
  /\ probe = <<>>
  /\ \E usePrecisionTiming \in BOOLEAN, raf \in BOOLEAN, ticksPerSecond \in TickerRates :
       sched = [impl |-> IF usePrecisionTiming THEN "precision" ELSE "interval",
                raf |-> raf,
                tk |-> IF usePrecisionTiming
                       THEN createPrecisionTicker(ticksPerSecond)
                       ELSE createTicker(ticksPerSecond),
                callbacks |-> <<>>,
                clock |-> 0,
                due |-> 0,
                tick |-> <<>>,
                log |-> <<>>,
                since |-> 0,
                atPause |-> <<>>,
                stopped |-> FALSE,
                restarted |-> FALSE]

\* An operation that delivers nothing leaves the ticker tk1; rearmed tells
\* whether it armed a timer.
TickerCall(tk1, rearmed, began) ==
  /\ sched' = [sched EXCEPT
                 !.tk = tk1,
                 !.due = IF rearmed
                         THEN sched.clock +
                              (IF sched.impl = "precision" THEN tk1.timeoutId
                               ELSE tk1.intervalId) \div 100
                         ELSE @,
                 !.since = IF began THEN sched.clock ELSE @,
                 !.tick = <<>>,
                 !.log = <<>>]
  /\ UNCHANGED <<state, call, hist, engine, ghost, probe>>

TickerStart ==
  /\ sched' = [sched EXCEPT
                 !.tk = IF sched.impl = "precision"
                        THEN precisionStart(sched.tk, sched.raf, sched.clock)
                        ELSE tickerStart(sched.tk),
                 !.due = IF sched.tk.isActive THEN @
                         ELSE sched.clock + sched.tk.intervalMs \div 100,
                 !.since = IF sched.tk.isActive THEN @ ELSE sched.clock,
                 !.restarted = IF sched.tk.isActive THEN @ ELSE sched.stopped,
                 !.tick = <<>>,
                 !.log = <<>>]
  /\ UNCHANGED <<state, call, hist, engine, ghost, probe>>

TickerStop ==
  /\ sched' = [sched EXCEPT
                 !.tk = IF sched.impl = "precision"
                        THEN precisionStop(sched.tk) ELSE tickerStop(sched.tk),
                 !.stopped = TRUE,
                 !.restarted = FALSE,
                 !.atPause = <<>>,
                 !.tick = <<>>,
                 !.log = <<>>]
  /\ UNCHANGED <<state, call, hist, engine, ghost, probe>>

TickerPause ==
  /\ sched' = [sched EXCEPT
                 !.tk = IF sched.impl = "precision"
                        THEN precisionPause(sched.tk) ELSE tickerPause(sched.tk),
                 !.atPause = IF tickerIsRunning(sched.tk)
                             THEN <<sched.tk.totalElapsedTime>> ELSE @,
                 !.tick = <<>>,
                 !.log = <<>>]
  /\ UNCHANGED <<state, call, hist, engine, ghost, probe>>

TickerResume ==
  LET resumed == sched.tk.isActive /\ sched.tk.isPausedState
  IN  TickerCall(IF sched.impl = "precision"
                 THEN precisionResume(sched.tk, sched.raf, sched.clock)
                 ELSE tickerResume(sched.tk),
                 resumed /\ sched.impl = "precision", resumed)

TickerSetTickRateWith(ticksPerSecond) ==
  TickerCall(IF sched.impl = "precision"
             THEN precisionSetTickRate(sched.tk, ticksPerSecond)
             ELSE setTickRate(sched.tk, ticksPerSecond),
             /\ sched.impl = "interval"
             /\ ticksPerSecond > 0
             /\ tickerIsRunning(sched.tk),
             FALSE)

TickerSetTickRate ==
  \E ticksPerSecond \in TickerRates \cup {0} : TickerSetTickRateWith(ticksPerSecond)

TickerResetTime ==
  /\ sched' = [sched EXCEPT
                 !.tk = IF sched.impl = "precision"
                        THEN precisionResetTime(sched.tk, sched.clock)
                        ELSE resetTime(sched.tk),
                 !.since = IF sched.impl = "precision" THEN sched.clock ELSE @,
                 !.atPause = <<>>,
                 !.tick = <<>>,
                 !.log = <<>>]
  /\ UNCHANGED <<state, call, hist, engine, ghost, probe>>

TickerOnTick ==
  \E c \in 1 .. NumCallbacks :
    /\ sched' = [sched EXCEPT !.callbacks = onTick_register(@, c),
                              !.tick = <<>>, !.log = <<>>]
    /\ UNCHANGED <<state, call, hist, engine, ghost, probe>>

TickerUnsubscribe ==
  \E c \in 1 .. NumCallbacks :
    /\ sched' = [sched EXCEPT !.callbacks = unsubscribe(@, c),
                              !.tick = <<>>, !.log = <<>>]
    /\ UNCHANGED <<state, call, hist, engine, ghost, probe>>

\* A tenth of a second passes.
ClockAdvance ==
  /\ sched.clock < MaxClock
  /\ sched' = [sched EXCEPT !.clock = @ + 1, !.tick = <<>>, !.log = <<>>]
  /\ UNCHANGED <<state, call, hist, engine, ghost, probe>>

TimerDue ==
  \/ FrameArmed(sched)
  \/ TimerDelay(sched) # 0 /\ sched.clock >= sched.due

\* The armed frame or timer runs its callback.  A repeating interval timer
\* is due again one delay after it ran or after it was due.
TimerFires ==
  /\ TimerDue
  /\ LET r == IF sched.impl = "precision"
              THEN precisionTick(sched.tk, sched.raf, sched.clock, sched.callbacks)
              ELSE intervalTick(sched.tk, sched.callbacks)
         delay == TimerDelay([sched EXCEPT !.tk = r.tk]) \div 100
     IN  \E nextDue \in IF sched.impl = "precision"
                        THEN {sched.clock + delay}
                        ELSE {sched.clock + delay, sched.due + delay} :
           sched' = [sched EXCEPT
                       !.tk = r.tk,
                       !.due = nextDue,
                       !.tick = IF r.tick = <<>> THEN <<>>
                                ELSE <<[deltaTime |-> Head(r.tick).deltaTime,
                                        totalTime |-> Head(r.tick).totalTime,
                                        elapsed |-> sched.clock - sched.since,
                                        atPause |-> sched.atPause,
                                        restarted |-> sched.restarted]>>,
                       !.log = r.log,
                       !.since = IF r.tick # <<>> THEN sched.clock ELSE @,
                       !.atPause = IF r.tick # <<>> THEN <<>> ELSE @,
                       !.stopped = IF r.tick # <<>> THEN FALSE ELSE @,
                       !.restarted = IF r.tick # <<>> THEN FALSE ELSE @]
  /\ UNCHANGED <<state, call, hist, engine, ghost, probe>>

TickerNext ==
  \/ TickerStart
  \/ TickerStop
  \/ TickerPause
  \/ TickerResume
  \/ TickerSetTickRate
  \/ TickerResetTime
  \/ TickerOnTick
  \/ TickerUnsubscribe
  \/ ClockAdvance
  \/ TimerFires

TickerSpec == TickerInit /\ [][TickerNext]_vars

\* C22: on every tick a ticker delivers, each registered callback is invoked
\* exactly once, in registration order, all with the same (deltaTime,
\* totalTime); a callback that throws stops neither the callbacks after it
\* nor the ticks after it (the timer stays armed).
C22_EveryCallbackInOrder ==
  [][(TimerFires /\ sched'.tick # <<>>)
       => /\ Len(sched'.log) = Len(sched.callbacks)
          /\ \A i \in 1 .. Len(sched.callbacks) :
               /\ sched'.log[i].callback = sched.callbacks[i]
               /\ sched'.log[i].deltaTime = Head(sched'.tick).deltaTime
               /\ sched'.log[i].totalTime = Head(sched'.tick).totalTime
          /\ FrameArmed(sched') \/ TimerDelay(sched') # 0]_vars

\* A tick delivered to two callbacks of which the first threw.
C22_Witness ==
  /\ sched # <<>>
  /\ Len(sched.log) = 2
  /\ sched.log[1].threw
  /\ ~sched.log[2].threw

\* C23: no tick is delivered while the ticker is paused or stopped; pause
\* leaves the total time as it is, and it stays so while paused (unless
\* resetTime zeroes it); the first tick delivered after a resume reports the
\* total time at the pause plus its own deltaTime.
C23_NoTickWhilePaused ==
  [][/\ sched'.tick # <<>> => tickerIsRunning(sched.tk) /\ tickerIsRunning(sched'.tk)
     /\ TickerPause => sched'.tk.totalElapsedTime = sched.tk.totalElapsedTime
     /\ (sched.tk.isPausedState \/ ~sched.tk.isActive)
          => sched'.tk.totalElapsedTime \in {sched.tk.totalElapsedTime, 0}
     /\ (sched'.tick # <<>> /\ Head(sched'.tick).atPause # <<>>)
          => Head(sched'.tick).totalTime =
               Head(Head(sched'.tick).atPause) + Head(sched'.tick).deltaTime]_vars

\* A tick delivered after a pause taken when the total time was not zero.
C23_Witness ==
  /\ sched # <<>>
  /\ sched.tick # <<>>
  /\ Head(sched.tick).atPause # <<>>
  /\ Head(Head(sched.tick).atPause) > 0

\* C24: the total time starts again from zero on stop() followed by start():
\* the first tick delivered after them reports a totalTime equal to its own
\* deltaTime.
C24_RestartResetsTotal ==
  (sched # <<>> /\ sched.tick # <<>> /\ Head(sched.tick).restarted)
    => Head(sched.tick).totalTime = Head(sched.tick).deltaTime

\* C25: setTickRate on a running ticker takes effect at once: the tick that
\* is scheduled next is scheduled with the new interval (a ticker driven by
\* animation frames has no delay to re-arm).
C25_RateAppliedAtOnce ==
  [][\A ticksPerSecond \in TickerRates :
       (tickerIsRunning(sched.tk) /\ TickerSetTickRateWith(ticksPerSecond))
         => \/ FrameArmed(sched')
            \/ TimerDelay(sched') = 100000 \div ticksPerSecond]_vars

\* C26: the deltaTime a tick delivers is the wall-clock time that elapsed
\* since the previous delivered tick, or since the start or resume after it,
\* for both implementations.
C26_DeltaIsElapsedTime ==
  (sched # <<>> /\ sched.tick # <<>>)
    => Head(sched.tick).deltaTime = Head(sched.tick).elapsed

(***************************************************************************)
(* The GreedyAlgorithm of packages/sim/src/algorithms.ts, which the        *)
(* package keeps beside the one above: it looks at idle elevators only and *)
(* takes the nearest floor among the waiting passengers' start floors and  *)
(* then the onboard passengers' destinations.                              *)
(***************************************************************************)
packageFindNearestCall(elevator, waitingPassengers) ==
  IF Len(waitingPassengers) = 0 THEN <<>>
  ELSE nearestFloorOf([k \in 1 .. Len(waitingPassengers) |->
                         waitingPassengers[k].startFloor]
                      \o [k \in 1 .. Len(elevator.passengers) |->
                            elevator.passengers[k].destinationFloor],
                      elevator.currentFloor)

RECURSIVE packageOnTickLoop(_, _, _, _)
packageOnTickLoop(commands, elevators, i, waitingPassengers) ==
  IF i > Len(elevators) THEN commands
  ELSE LET elevator == elevators[i]
           nearestCall == packageFindNearestCall(elevator, waitingPassengers)
       IN  packageOnTickLoop(
             IF elevator.direction # IDLE \/ nearestCall = <<>> THEN commands
             ELSE commands \o createMoveCommand(elevator, Head(nearestCall)),
             elevators, i + 1, waitingPassengers)

packageOnTick(elevators, waitingPassengers, currentTime) ==
  packageOnTickLoop(<<>>, elevators, 1, waitingPassengers)

(***************************************************************************)
(* The specification of the Greedy algorithm as a function: the elevator   *)
(* snapshots and the waiting list are drawn at the start, and either       *)
(* onTick is applied to them.  probe.by tells which was applied ("none"    *)
(* before), probe.commands is what it returned.                            *)
(***************************************************************************)
MaxOnboard == 2
MaxWaiting == 2

\* The snapshots of the first elevator: every floor, direction and door
\* state, with up to MaxOnboard passengers.
ElevatorSnapshots(id) ==
  [id : {id},
   currentFloor : Floors,
   direction : {UP, DOWN, IDLE},
   doorState : {OPEN, CLOSED, OPENING, CLOSING},
   passengers : SeqsUpTo([destinationFloor : Floors], MaxOnboard)]

\* The snapshots of a second elevator: empty, doors open or closed.
EmptySnapshots(id) ==
  [id : {id},
   currentFloor : Floors,
   direction : {UP, IDLE},
   doorState : {OPEN, CLOSED},
   passengers : {<<>>}]

GreedyInit ==
  /\ state = InitialState(0)
  /\ call = "none"
  /\ hist = [moveElapsed |-> 0, moveFrom |-> 0, doorElapsed |-> 0,
             arrived |-> FALSE, doorChanged |-> FALSE]
  /\ engine = <<>>
  /\ ghost = <<>>
  /\ sched = <<>>
  /\ \E e0 \in ElevatorSnapshots(ElevatorIdOf[1]),
        rest \in SeqsUpTo(EmptySnapshots(ElevatorIdOf[2]), 1),
        waitingPassengers \in SeqsUpTo([startFloor : Floors], MaxWaiting) :
       probe = [elevators |-> <<e0>> \o rest,
                waitingPassengers |-> waitingPassengers,
                by |-> "none",
                commands |-> <<>>]

GreedyOnTick ==
  /\ probe.by = "none"
  /\ probe' = [probe EXCEPT
                 !.by = "GreedyAlgorithm",
                 !.commands = onTick(probe.elevators, probe.waitingPassengers, 0)]
  /\ UNCHANGED <<state, call, hist, engine, ghost, sched>>

PackageOnTick ==
  /\ probe.by = "none"
  /\ probe' = [probe EXCEPT
                 !.by = "algorithms.ts",
                 !.commands = packageOnTick(probe.elevators, probe.waitingPassengers, 0)]
  /\ UNCHANGED <<state, call, hist, engine, ghost, sched>>

GreedyNext == GreedyOnTick \/ PackageOnTick

GreedySpec == GreedyInit /\ [][GreedyNext]_vars

\* The commands of the result that address the elevator with this id.
CommandsFor(id) == SelectSeq(probe.commands, LAMBDA c : c.elevatorId = id)

\* C27: whichever onTick of the repository is applied, every elevator whose
\* doors are open gets the command CLOSE_DOORS, whatever its passengers, its
\* direction and the waiting list.
C27_OpenDoorsAreClosed ==
  (probe # <<>> /\ probe.by # "none")
    => \A i \in 1 .. Len(probe.elevators) :
         probe.elevators[i].doorState = OPEN
           => \E k \in 1 .. Len(probe.commands) :
                /\ probe.commands[k].elevatorId = probe.elevators[i].id
                /\ probe.commands[k].action = CLOSE_DOORS

\* The command that takes an elevator at currentFloor to the target floor.
ActionToward(currentFloor, targetFloor) ==
  IF targetFloor = currentFloor THEN OPEN_DOORS
  ELSE IF targetFloor > currentFloor THEN MOVE_UP
  ELSE MOVE_DOWN

\* floors[k] is nearest to currentFloor, and first in the list among the
\* floors as near.
IsFirstNearest(floors, k, currentFloor) ==
  /\ \A j \in 1 .. Len(floors) :
       Abs(floors[k] - currentFloor) <= Abs(floors[j] - currentFloor)
  /\ \A j \in 1 .. (k - 1) :
       Abs(floors[j] - currentFloor) > Abs(floors[k] - currentFloor)

TwoIdleEquidistant ==
  /\ probe # <<>>
  /\ probe.by # "none"
  /\ Len(probe.elevators) = 2
  /\ \A i \in 1 .. 2 :
       /\ probe.elevators[i].direction = IDLE
       /\ probe.elevators[i].doorState = CLOSED
       /\ probe.elevators[i].passengers = <<>>
  /\ Len(probe.waitingPassengers) = 1
  /\ Abs(probe.waitingPassengers[1].startFloor - probe.elevators[1].currentFloor)
       = Abs(probe.waitingPassengers[1].startFloor - probe.elevators[2].currentFloor)
  /\ probe.waitingPassengers[1].startFloor # probe.elevators[1].currentFloor

\* C29 as the spec states it: of two idle elevators as far from the single
\* waiting passenger, only the first gets the move command; the second gets
\* no command in that tick.
C29_OnlyFirstElevatorMoves ==
  TwoIdleEquidistant
    => /\ Len(CommandsFor(probe.elevators[1].id)) = 1
       /\ CommandsFor(probe.elevators[2].id) = <<>>

\* C29: of two idle elevators as far from the single waiting passenger, both
\* get a move command towards the passenger's floor, the first elevator's
\* command first.
C29_BothElevatorsMove ==
  TwoIdleEquidistant
    => /\ Len(probe.commands) = 2
       /\ \A i \in 1 .. 2 :
            /\ probe.commands[i].elevatorId = probe.elevators[i].id
            /\ probe.commands[i].action =
                 ActionToward(probe.elevators[i].currentFloor,
                              probe.waitingPassengers[1].startFloor)

\* The two elevators at the ends of the building and the passenger between
\* them: one is sent up, the other down.
C29_Witness ==
  /\ TwoIdleEquidistant
  /\ probe.by = "GreedyAlgorithm"
  /\ probe.elevators[1].currentFloor # probe.elevators[2].currentFloor
  /\ probe.commands = <<[elevatorId |-> ElevatorIdOf[1], action |-> MOVE_UP],
                        [elevatorId |-> ElevatorIdOf[2], action |-> MOVE_DOWN]>>

(***************************************************************************)
(* The random source (rng.ts) and the floor selection of PassengerSpawner  *)
(* (spawner.ts), by what they compute.  A value of nextFloat is f /        *)
(* FloatSteps for a numerator f of 0 .. FloatSteps - 1, so it lies in      *)
(* [0, 1); probabilities are in percent and the weights 2.0, 1.0 and 1.5   *)
(* are doubled to stay whole.  An operation that reads nextFloat takes the *)
(* numerator as its first argument.                                        *)
(***************************************************************************)
FloatSteps == 4
MaxFloorCount == 4

SP_UNIFORM == "uniform"
SP_MORNING_RUSH == "morning_rush"
SP_EVENING_RUSH == "evening_rush"
SP_LUNCH_TIME == "lunch_time"
SP_RANDOM_BURSTS == "random_bursts"
SP_CUSTOM == "custom"
SpawnPatterns ==
  {SP_UNIFORM, SP_MORNING_RUSH, SP_EVENING_RUSH, SP_LUNCH_TIME,
   SP_RANDOM_BURSTS, SP_CUSTOM}

\* Math.floor(nextFloat() * (max - min)) + min
nextInt(f, min, max) == (f * (max - min)) \div FloatSteps + min

nextIntMax(f, max) == nextInt(f, 0, max)

\* nextFloat() < probability
nextBoolean(f, percent) == f * 100 < percent * FloatSteps

choice(f, array) == array[nextIntMax(f, Len(array)) + 1]

RECURSIVE SumTo(_, _)
SumTo(weights, i) == IF i = 0 THEN 0 ELSE weights[i] + SumTo(weights, i - 1)

\* The loop of weightedFloorSelection and selectFromCustomWeights: random
\* = nextFloat() * totalWeight loses the weights one by one; the first
\* index at which it is not positive, else the last index.
weightedIndex(f, weights) ==
  LET n == Len(weights)
      Reached(i) == f * SumTo(weights, n) - FloatSteps * SumTo(weights, i) <= 0
  IN  IF \E i \in 1 .. n : Reached(i)
      THEN (CHOOSE i \in 1 .. n : Reached(i) /\ \A j \in 1 .. (i - 1) : ~Reached(j)) - 1
      ELSE n - 1

\* groundFloorWeight 2.0 and topFloorWeight 1.5, the defaults, doubled.
weightedFloorSelection(f, floorCount) ==
  LET filled == [i \in 1 .. floorCount |-> 2]
      ground == [filled EXCEPT ![1] = 4]
      weights == [ground EXCEPT ![floorCount] = 3]
  IN  weightedIndex(f, weights)

selectFromCustomWeights(sp, f) ==
  IF Len(sp.customWeights) = 0 THEN nextIntMax(f, sp.floorCount)
  ELSE weightedIndex(f, sp.customWeights)

\* f1 and f2 are the values of nextFloat it reads, in this order.
selectStartFloor(sp, f1, f2) ==
  CASE sp.currentPattern = SP_UNIFORM -> nextIntMax(f1, sp.floorCount)
    [] sp.currentPattern = SP_MORNING_RUSH ->
         IF nextBoolean(f1, 70) THEN 0 ELSE nextInt(f2, 1, sp.floorCount)
    [] sp.currentPattern = SP_EVENING_RUSH ->
         IF nextBoolean(f1, 20) THEN 0 ELSE nextInt(f2, 1, sp.floorCount)
    [] sp.currentPattern = SP_LUNCH_TIME ->
         LET middleStart == (sp.floorCount * 3) \div 10
             middleEnd == (sp.floorCount * 7) \div 10
         IN  nextInt(f1, middleStart, middleEnd + 1)
    [] sp.currentPattern = SP_RANDOM_BURSTS ->
         weightedFloorSelection(f1, sp.floorCount)
    [] sp.currentPattern = SP_CUSTOM -> selectFromCustomWeights(sp, f1)

\* selectDestinationFloor drawing the destination of a passenger of the
\* ground floor from the floors 1 .. floorCount.
selectDestinationFloorBy_PastTop(sp, startFloor, f1, f2) ==
  LET topFloor == sp.floorCount - 1
      availableFloors ==
        SelectSeq([i \in 1 .. sp.floorCount |-> i - 1], LAMBDA x : x # startFloor)
  IN  IF startFloor = 0
      THEN IF sp.floorCount = 1 THEN startFloor
           ELSE nextInt(f2, 1, sp.floorCount + 1)
      ELSE IF startFloor = topFloor THEN nextIntMax(f2, topFloor)
      ELSE choice(f1, availableFloors)

\* selectDestinationFloor with the values of nextFloat it reads: f1 by
\* nextBoolean, whose two branches draw alike, or by choice; f2 by the
\* nextInt after nextBoolean.
selectDestinationFloorBy(sp, startFloor, f1, f2) ==
  LET topFloor == sp.floorCount - 1
      availableFloors ==
        SelectSeq([i \in 1 .. sp.floorCount |-> i - 1], LAMBDA x : x # startFloor)
  IN  IF startFloor = 0
      THEN IF sp.floorCount = 1 THEN startFloor
           ELSE IF nextBoolean(f1, 80) THEN nextInt(f2, 1, sp.floorCount)
           ELSE nextInt(f2, 1, sp.floorCount)
      ELSE IF startFloor = topFloor
      THEN IF nextBoolean(f1, 90) THEN nextIntMax(f2, topFloor)
           ELSE nextIntMax(f2, topFloor)
      ELSE choice(f1, availableFloors)

\* What spawnSinglePassenger draws from four values of nextFloat.
drawOf(sp, fs) ==
  LET startFloor == selectStartFloor(sp, fs[1], fs[2])
  IN  [startFloor |-> startFloor,
       destinationFloor |-> selectDestinationFloorBy(sp, startFloor, fs[3], fs[4]),
       id |-> 1]

(***************************************************************************)
(* The specification of nextTick as a function: a spawner of any floor     *)
(* count and pattern and the arguments are drawn at the start, and         *)
(* nextTick is applied with any values of the random source, the Poisson   *)
(* count being any number up to MaxPerTick.                                *)
(***************************************************************************)
MaxPerTick == 1

\* The weights setSpawnPattern accepts for a building: one per floor.
CustomWeightsOf(floorCount) == [1 .. floorCount -> {0, 2}]

Spawners ==
  UNION {
    {[floorCount |-> n, currentPattern |-> pattern, customWeights |-> <<>>,
      spawnRate |-> 60, timeSinceLastSpawn |-> 0] : pattern \in SpawnPatterns}
    \cup
    {[floorCount |-> n, currentPattern |-> SP_CUSTOM, customWeights |-> w,
      spawnRate |-> 60, timeSinceLastSpawn |-> 0] : w \in CustomWeightsOf(n)}
    : n \in 2 .. MaxFloorCount}

SpawnerInit ==
  /\ state = InitialState(0)
  /\ call = "none"
  /\ hist = [moveElapsed |-> 0, moveFrom |-> 0, doorElapsed |-> 0,
             arrived |-> FALSE, doorChanged |-> FALSE]
  /\ engine = <<>>
  /\ ghost = <<>>
  /\ sched = <<>>
  /\ \E sp \in Spawners, deltaTime \in {0, 1}, currentTime \in {1, 2},
        crowded \in BOOLEAN :
       probe = [sp |-> sp,
                deltaTime |-> deltaTime,
                currentTime |-> currentTime,
                existingWaitingCounts |->
                  [i \in 1 .. sp.floorCount |->
                     IF crowded /\ i = 1 THEN MaxWaitingPerFloor ELSE 0],
                called |-> FALSE,
                passengers |-> <<>>]

SpawnerNextTick ==
  /\ ~probe.called
  /\ \E floats \in SeqsUpTo([1 .. 4 -> 0 .. (FloatSteps - 1)], MaxPerTick) :
       LET draws == [i \in 1 .. Len(floats) |-> drawOf(probe.sp, floats[i])]
           r == nextTick(probe.sp, probe.deltaTime, probe.currentTime,
                         probe.existingWaitingCounts, draws, 1)
       IN  probe' = [probe EXCEPT !.sp = r.sp,
                                  !.called = TRUE,
                                  !.passengers = r.passengers]
  /\ UNCHANGED <<state, call, hist, engine, ghost, sched>>

SpawnerNext == SpawnerNextTick

SpawnerSpec == SpawnerInit /\ [][SpawnerNext]_vars

\* C30: every passenger nextTick returns has its start and destination floor
\* within [0, floorCount - 1], a destination other than its start floor, the
\* current time as requestTime and no pickupTime or dropoffTime, for every
\* spawn pattern and every floor count from 2.
C30_SpawnedPassengerIsValid ==
  (probe # <<>> /\ probe.called)
    => \A i \in 1 .. Len(probe.passengers) :
         LET p == probe.passengers[i]
         IN  /\ p.startFloor \in 0 .. (probe.sp.floorCount - 1)
             /\ p.destinationFloor \in 0 .. (probe.sp.floorCount - 1)
             /\ p.destinationFloor # p.startFloor
             /\ p.requestTime = probe.currentTime
             /\ p.pickupTime = <<>>
             /\ p.dropoffTime = <<>>

\* A passenger spawned on the top floor of a building of two floors.
C30_Witness ==
  /\ probe # <<>>
  /\ probe.called
  /\ probe.sp.floorCount = 2
  /\ Len(probe.passengers) = 1
  /\ probe.passengers[1].startFloor = 1
  /\ probe.passengers[1].destinationFloor = 0

MaxCalls == 3
RateDeltaTimes == {0, 10, 100}

\* rate per minute times deltaTime in tenths of a second, in thousandths
lambdaOf(rate, deltaTime) == (rate * deltaTime * 1000) \div 600

\* Math.exp(-lambda) in thousandths: exp(0) = 1, exp(-1) = 0.368
expNeg(lambda) ==
  CASE lambda = 0 -> 1000
    [] lambda = 1000 -> 368

RECURSIVE ProductOf(_, _)
ProductOf(fs, k) == IF k = 0 THEN 1 ELSE fs[k] * ProductOf(fs, k - 1)

RECURSIVE PowerOf(_, _)
PowerOf(b, k) == IF k = 0 THEN 1 ELSE b * PowerOf(b, k - 1)

\* p = fs[1] * ... * fs[k] / FloatSteps^k is still above l.
StillAbove(fs, k, l) == ProductOf(fs, k) * 1000 > l * PowerOf(FloatSteps, k)

\* poissonSpawn returning k, the number of values read, not k - 1.
poissonSpawn_CountsLastDraw(fs, normalCount, rate, deltaTime) ==
  LET lambda == lambdaOf(rate, deltaTime)
  IN  IF lambda < 10000
      THEN IF \E k \in 1 .. Len(fs) : ~StillAbove(fs, k, expNeg(lambda))
           THEN CHOOSE k \in 1 .. Len(fs) :
                  /\ ~StillAbove(fs, k, expNeg(lambda))
                  /\ \A j \in 1 .. (k - 1) : StillAbove(fs, j, expNeg(lambda))
           ELSE Len(fs) - 1
      ELSE normalCount

poissonSpawn(fs, normalCount, rate, deltaTime) ==
  LET lambda == lambdaOf(rate, deltaTime)
  IN  IF lambda < 10000
      THEN IF \E k \in 1 .. Len(fs) : ~StillAbove(fs, k, expNeg(lambda))
           THEN (CHOOSE k \in 1 .. Len(fs) :
                   /\ ~StillAbove(fs, k, expNeg(lambda))
                   /\ \A j \in 1 .. (k - 1) : StillAbove(fs, j, expNeg(lambda))) - 1
           ELSE Len(fs) - 1
      ELSE normalCount

\* A spawner of FloorCount floors, as the engine makes it, called MaxCalls
\* times at most; total counts the passengers it has returned.
RateInit ==
  /\ state = InitialState(0)
  /\ call = "none"
  /\ hist = [moveElapsed |-> 0, moveFrom |-> 0, doorElapsed |-> 0,
             arrived |-> FALSE, doorChanged |-> FALSE]
  /\ engine = <<>>
  /\ ghost = <<>>
  /\ sched = <<>>
  /\ \E spawnRate \in {0, 60} :
       probe = [sp |-> [spawnRate |-> spawnRate, timeSinceLastSpawn |-> 0],
                calls |-> 0,
                total |-> 0,
                deltaTime |-> 0,
                count |-> 0,
                passengers |-> <<>>]

RateNextTick ==
  /\ probe.calls < MaxCalls
  /\ \E deltaTime \in RateDeltaTimes,
        fs \in [1 .. (MaxPerTick + 1) -> 0 .. (FloatSteps - 1)],
        normalCount \in 0 .. MaxPerTick,
        d \in DrawsOf(probe.total + 1) :
       LET spawnCount == poissonSpawn(fs, normalCount, probe.sp.spawnRate, deltaTime)
           draws == [i \in 1 .. spawnCount |-> d]
           r == nextTick(probe.sp, deltaTime, probe.calls + 1,
                         [i \in 1 .. FloorCount |-> 0], draws, probe.total + 1)
       IN  probe' = [probe EXCEPT !.sp = r.sp,
                                  !.calls = @ + 1,
                                  !.total = @ + Len(r.passengers),
                                  !.deltaTime = deltaTime,
                                  !.count = spawnCount,
                                  !.passengers = r.passengers]
  /\ UNCHANGED <<state, call, hist, engine, ghost, sched>>

RateSetSpawnRate ==
  /\ \E newRate \in SpawnRates :
       probe' = [probe EXCEPT !.sp = setSpawnRate(@, newRate)]
  /\ UNCHANGED <<state, call, hist, engine, ghost, sched>>

RateNext == RateNextTick \/ RateSetSpawnRate

RateSpec == RateInit /\ [][RateNext]_vars

\* C32: a spawner whose spawnRate is 0 returns no passenger from nextTick,
\* for every deltaTime and every value of the random source, after any
\* earlier calls, also after setSpawnRate(0) on a spawner that spawned.
C32_ZeroRateSpawnsNothing ==
  [][(RateNextTick /\ probe.sp.spawnRate = 0)
       => probe'.passengers = <<>> /\ probe'.count = 0]_vars

\* A spawner that returned a passenger, was set to the rate 0 and was then
\* called with a deltaTime of a second: it returned nothing.
C32_Witness ==
  /\ probe # <<>>
  /\ probe.total > 0
  /\ probe.sp.spawnRate = 0
  /\ probe.calls > 1
  /\ probe.deltaTime = 10
  /\ probe.passengers = <<>>

(***************************************************************************)
(* LCGRandom (rng.ts).  The seed is a number below 2^32, kept as its two   *)
(* halves of 16 bits so that a * seed + c is computed exactly, as the      *)
(* doubles of the source do for a seed below 2^32.  nextFloat returns      *)
(* seed / 2^32, which is kept as the seed itself.  A result is             *)
(* [ok, v]: ok is FALSE for a thrown error, v holds the number, the        *)
(* boolean as 0 or 1, the halves of the float, or the array.               *)
(***************************************************************************)
MaxOps == 2
Half == 65536
LCG_A == [hi |-> 25, lo |-> 26125]        \* 1664525
LCG_C == [hi |-> 15470, lo |-> 62303]     \* 1013904223
SeedInputs == {0 - 42, 0, 1, 42, 12345, 65536, 2147483647}

\* Math.abs(Math.floor(seed)) || 1, for an integer seed
LCGRandom(seed) ==
  LET n == IF Abs(seed) = 0 THEN 1 ELSE Abs(seed)
  IN  [hi |-> n \div Half, lo |-> n % Half]

\* a generator that adds the number of values drawn in the whole process
advance_SharedCounter(seed, drawn) ==
  LET low == seed.lo * LCG_A.lo + LCG_C.lo + drawn
  IN  [hi |-> (seed.hi * LCG_A.lo + seed.lo * LCG_A.hi + LCG_C.hi + low \div Half) % Half,
       lo |-> low % Half]

\* seed = (a * seed + c) % m.  drawn, the number of values drawn from all
\* generators so far, is not read.
advance(seed, drawn) ==
  LET low == seed.lo * LCG_A.lo + LCG_C.lo
  IN  [hi |-> (seed.hi * LCG_A.lo + seed.lo * LCG_A.hi + LCG_C.hi + low \div Half) % Half,
       lo |-> low % Half]

\* Math.floor(seed / m * range)
floorOfFloatTimes(seed, range) == (seed.hi * range + (seed.lo * range) \div Half) \div Half

Thrown(g) == [seed |-> g.seed, drawn |-> g.drawn, ok |-> FALSE, v |-> <<>>]

LCGRandom_nextFloat(g) ==
  LET s == advance(g.seed, g.drawn)
  IN  [seed |-> s, drawn |-> g.drawn + 1, ok |-> TRUE, v |-> <<s.hi, s.lo>>]

LCGRandom_nextInt(g, min, max) ==
  IF min >= max
  THEN Thrown(g)
  ELSE LET r == LCGRandom_nextFloat(g)
       IN  [r EXCEPT !.v = <<floorOfFloatTimes(r.seed, max - min) + min>>]

LCGRandom_nextIntMax(g, max) == LCGRandom_nextInt(g, 0, max)

\* probability in hundredths
LCGRandom_nextBoolean(g, probability) ==
  IF probability < 0 \/ probability > 100
  THEN Thrown(g)
  ELSE LET r == LCGRandom_nextFloat(g)
       IN  [r EXCEPT !.v = <<IF floorOfFloatTimes(r.seed, 100) < probability
                              THEN 1 ELSE 0>>]

LCGRandom_choice(g, array) ==
  IF Len(array) = 0
  THEN Thrown(g)
  ELSE LET r == LCGRandom_nextIntMax(g, Len(array))
       IN  [r EXCEPT !.v = <<array[r.v[1] + 1]>>]

\* for (i = length - 1; i > 0; i--) swap array[i] and array[nextIntMax(i + 1)];
\* i is the index of the source, array[i + 1] here.
RECURSIVE shuffleFrom(_, _, _)
shuffleFrom(g, array, i) ==
  IF i <= 0
  THEN [seed |-> g.seed, drawn |-> g.drawn, ok |-> TRUE, v |-> array]
  ELSE LET r == LCGRandom_nextIntMax(g, i + 1)
           j == r.v[1]
           swapped == [array EXCEPT ![i + 1] = array[j + 1], ![j + 1] = array[i + 1]]
       IN  shuffleFrom([seed |-> r.seed, drawn |-> r.drawn], swapped, i - 1)

LCGRandom_shuffle(g, array) == shuffleFrom(g, array, Len(array) - 1)

RngOps ==
  {[op |-> "nextFloat", x |-> 0, y |-> 0, array |-> <<>>]}
    \cup {[op |-> "nextInt", x |-> r[1], y |-> r[2], array |-> <<>>] :
            r \in {<<0, 3>>, <<2, 2>>, <<0 - 1, 6>>}}
    \cup {[op |-> "nextBoolean", x |-> p, y |-> 0, array |-> <<>>] :
            p \in {0 - 10, 0, 50, 100}}
    \cup {[op |-> o, x |-> 0, y |-> 0, array |-> a] :
            o \in {"choice", "shuffle"}, a \in {<<>>, <<7, 8, 9>>}}

applyOp(g, o) ==
  CASE o.op = "nextFloat" -> LCGRandom_nextFloat(g)
    [] o.op = "nextInt" -> LCGRandom_nextInt(g, o.x, o.y)
    [] o.op = "nextBoolean" -> LCGRandom_nextBoolean(g, o.x)
    [] o.op = "choice" -> LCGRandom_choice(g, o.array)
    [] o.op = "shuffle" -> LCGRandom_shuffle(g, o.array)

\* Two generators of one seed and one list of operations; each generator
\* performs the operations of the list in order, at its own pace.  drawn
\* counts the values drawn from both.
RngInit ==
  /\ state = InitialState(0)
  /\ call = "none"
  /\ hist = [moveElapsed |-> 0, moveFrom |-> 0, doorElapsed |-> 0,
             arrived |-> FALSE, doorChanged |-> FALSE]
  /\ engine = <<>>
  /\ ghost = <<>>
  /\ sched = <<>>
  /\ \E seed \in SeedInputs :
       probe = [ops |-> <<>>,
                drawn |-> 0,
                gens |-> [i \in 1 .. 2 |-> [seed |-> LCGRandom(seed), results |-> <<>>]]]

RngRequest ==
  /\ Len(probe.ops) < MaxOps
  /\ \E o \in RngOps : probe' = [probe EXCEPT !.ops = Append(@, o)]
  /\ UNCHANGED <<state, call, hist, engine, ghost, sched>>

RngApply(i) ==
  /\ Len(probe.gens[i].results) < Len(probe.ops)
  /\ LET o == probe.ops[Len(probe.gens[i].results) + 1]
         r == applyOp([seed |-> probe.gens[i].seed, drawn |-> probe.drawn], o)
     IN  probe' = [probe EXCEPT !.drawn = r.drawn,
                                !.gens[i] = [seed |-> r.seed,
                                             results |-> Append(@.results,
                                                                [ok |-> r.ok, v |-> r.v])]]
  /\ UNCHANGED <<state, call, hist, engine, ghost, sched>>

RngApplyFirst == RngApply(1)

RngApplySecond == RngApply(2)

RngNext == RngRequest \/ RngApplyFirst \/ RngApplySecond

RngSpec == RngInit /\ [][RngNext]_vars

C34_RequestCleanup ==
  [][LET f == state.currentFloor
     IN  /\ BoardPassengers =>
              /\ state'.currentFloor = f
              /\ call' = "boarded" =>
                   /\ state'.pickupFloors = state.pickupFloors \ {f}
                   /\ f \in state'.requestedFloors <=> f \in state'.dropoffFloors
              /\ call' # "boarded" =>
                   /\ state'.pickupFloors = state.pickupFloors
                   /\ state'.dropoffFloors = state.dropoffFloors
                   /\ state'.requestedFloors = state.requestedFloors
         /\ DisembarkPassengers =>
              /\ state'.currentFloor = f
              /\ call' = "disembarked" =>
                   /\ state'.dropoffFloors = state.dropoffFloors \ {f}
                   /\ f \in state'.requestedFloors <=> f \in state'.pickupFloors
              /\ call' # "disembarked" =>
                   /\ state'.pickupFloors = state.pickupFloors
                   /\ state'.dropoffFloors = state.dropoffFloors
                   /\ state'.requestedFloors = state.requestedFloors]_vars

\* A passenger boarded at a floor that is also a dropoff floor: the pickup
\* request is gone and the floor is still requested.
C34_Witness ==
  /\ engine = <<>>
  /\ call = "boarded"
  /\ state.currentFloor \notin state.pickupFloors
  /\ state.currentFloor \in state.dropoffFloors
  /\ state.currentFloor \in state.requestedFloors

\* C35: requestedFloors is the union of pickupFloors and dropoffFloors, which
\* is the targetFloors of getState(), and holds only floors of the building,
\* whatever floors addPickupRequest and addDropoffRequest were called with.
C35_RequestedIsUnion ==
  /\ state.requestedFloors = state.pickupFloors \cup state.dropoffFloors
  /\ getState(state).targetFloors = state.requestedFloors
  /\ state.requestedFloors \subseteq 0 .. (FloorCount - 1)

\* A car with a pickup request for one floor and, after boarding, a dropoff
\* request for another.
C35_Witness ==
  /\ engine = <<>>
  /\ call = "boarded"
  /\ state.pickupFloors # {}
  /\ state.dropoffFloors # {}
  /\ state.pickupFloors \cap state.dropoffFloors = {}


\* C36: at the end of every tick of the engine no floor has more waiting
\* passengers than the spawner's maxWaitingPerFloor.
C36_WaitingWithinCap ==
  engine # <<>> =>
    \A f \in Floors :
      waitingCountsOf(engine.waitingPassengers)[f + 1] <= MaxWaitingPerFloor


\* C37: the status of the engine agrees with its ticker: running exactly
\* when a ticker exists and is running, paused exactly when a ticker exists
\* and is paused, idle exactly when there is no ticker and no elevator.
C37_StatusAgreesWithTicker ==
  engine # <<>> =>
    /\ engine.status = SIM_RUNNING <=>
         (engine.ticker # <<>> /\ tickerIsRunning(Head(engine.ticker)))
    /\ engine.status = SIM_PAUSED <=>
         (engine.ticker # <<>> /\ Head(engine.ticker).isActive
                               /\ Head(engine.ticker).isPausedState)
    /\ engine.status = SIM_IDLE <=>
         (engine.ticker = <<>> /\ engine.elevators = <<>>)


\* C40: whenever the IntervalTicker is running, the period of its armed
\* timer is 1000 / getTickRate() ms, the deltaTime it reports.
C40_PeriodMatchesRate ==
  (sched # <<>> /\ sched.impl = "interval" /\ tickerIsRunning(sched.tk)) =>
    /\ sched.tk.intervalId = sched.tk.intervalMs
    /\ sched.tk.intervalId = 100000 \div getTickRate(sched.tk)

(***************************************************************************)
(* PrecisionTicker with the timers of its environment.  env is             *)
(* [tk, timers, handle]: the ticker, the timeouts or animation frames that *)
(* are requested and have neither fired nor been cancelled, each           *)
(* [id, due], and the id that the ticker's timeoutId or animationFrameId   *)
(* refers to (0 for null).  The callback registered on the ticker calls    *)
(* the ticker's operations from inside the tick, as its behaviour says.    *)
(***************************************************************************)
MaxPending == 3
Behaviours == {"none", "stop", "pause", "stopStart", "pauseResume"}

FreshTimerId(env) ==
  CHOOSE n \in 1 .. (MaxPending + 2) :
    /\ n # env.handle
    /\ \A t \in env.timers : t.id # n
    /\ \A m \in 1 .. (n - 1) : m = env.handle \/ \E t \in env.timers : t.id = m

\* The call of scheduleNextTick that leaves the ticker k1: it requests a
\* timer, and stores its handle, unless the ticker is inactive or paused.
PrecisionTicker_scheduleNextTick(env, k1, raf, now) ==
  IF ~k1.isActive \/ k1.isPausedState
  THEN [env EXCEPT !.tk = k1]
  ELSE [tk |-> k1,
        timers |-> env.timers \cup
                     {[id |-> FreshTimerId(env),
                       due |-> IF raf THEN now ELSE now + k1.intervalMs \div 100]},
        handle |-> FreshTimerId(env)]

\* The call of cancelScheduledTick that leaves the ticker k1: the timer of
\* the stored handle is cancelled, which does nothing if it has fired.
PrecisionTicker_cancelScheduledTick(env, k1) ==
  [tk |-> k1,
   timers |-> {t \in env.timers : t.id # env.handle},
   handle |-> 0]

PrecisionTicker_start(env, raf, now) ==
  IF env.tk.isActive THEN env
  ELSE PrecisionTicker_scheduleNextTick(env, precisionStart(env.tk, raf, now), raf, now)

PrecisionTicker_stop(env) ==
  PrecisionTicker_cancelScheduledTick(env, precisionStop(env.tk))

PrecisionTicker_pause(env) ==
  IF ~env.tk.isActive THEN env
  ELSE PrecisionTicker_cancelScheduledTick(env, precisionPause(env.tk))

PrecisionTicker_resume(env, raf, now) ==
  IF ~env.tk.isActive \/ ~env.tk.isPausedState THEN env
  ELSE PrecisionTicker_scheduleNextTick(env, precisionResume(env.tk, raf, now), raf, now)

\* What the registered callback does to the ticker when it is called.
runCallback(env, behaviour, raf, now) ==
  CASE behaviour = "none" -> env
    [] behaviour = "stop" -> PrecisionTicker_stop(env)
    [] behaviour = "pause" -> PrecisionTicker_pause(env)
    [] behaviour = "stopStart" ->
         PrecisionTicker_start(PrecisionTicker_stop(env), raf, now)
    [] behaviour = "pauseResume" ->
         PrecisionTicker_resume(PrecisionTicker_pause(env), raf, now)

\* PrecisionTicker.tick, run by the timer id at the instant now.
PrecisionTicker_tick(env, id, behaviour, raf, now) ==
  LET fired == [env EXCEPT !.timers = {t \in @ : t.id # id}]
      k == fired.tk
  IN  IF ~k.isActive \/ k.isPausedState THEN fired
      ELSE LET deltaTime == now - k.lastTickTime
               called ==
                 IF deltaTime * 100 >= k.intervalMs
                 THEN runCallback(
                        [fired EXCEPT !.tk.totalElapsedTime = @ + deltaTime,
                                      !.tk.lastTickTime = now],
                        behaviour, raf, now)
                 ELSE fired
           IN  PrecisionTicker_scheduleNextTick(
                 called, scheduleNextTick(called.tk, raf), raf, now)

ReentrantInit ==
  /\ state = InitialState(0)
  /\ call = "none"
  /\ hist = [moveElapsed |-> 0, moveFrom |-> 0, doorElapsed |-> 0,
             arrived |-> FALSE, doorChanged |-> FALSE]
  /\ engine = <<>>
  /\ ghost = <<>>
  /\ probe = <<>>
  /\ \E raf \in BOOLEAN, ticksPerSecond \in TickerRates, behaviour \in Behaviours :
       sched = [env |-> [tk |-> createPrecisionTicker(ticksPerSecond),
                         timers |-> {},
                         handle |-> 0],
                raf |-> raf,
                behaviour |-> behaviour,
                clock |-> 0]

ReentrantCall(env1) ==
  /\ sched' = [sched EXCEPT !.env = env1]
  /\ UNCHANGED <<state, call, hist, engine, ghost, probe>>

ReentrantStart == ReentrantCall(PrecisionTicker_start(sched.env, sched.raf, sched.clock))

ReentrantStop == ReentrantCall(PrecisionTicker_stop(sched.env))

ReentrantPause == ReentrantCall(PrecisionTicker_pause(sched.env))

ReentrantResume == ReentrantCall(PrecisionTicker_resume(sched.env, sched.raf, sched.clock))

ReentrantSetTickRate ==
  \E ticksPerSecond \in TickerRates \cup {0} :
    ReentrantCall([sched.env EXCEPT !.tk = precisionSetTickRate(@, ticksPerSecond)])

ReentrantClockAdvance ==
  /\ sched.clock < MaxClock
  /\ sched' = [sched EXCEPT !.clock = @ + 1]
  /\ UNCHANGED <<state, call, hist, engine, ghost, probe>>

ReentrantTimerFires ==
  /\ \E t \in sched.env.timers :
       /\ t.due <= sched.clock
       /\ LET env1 == PrecisionTicker_tick(sched.env, t.id, sched.behaviour,
                                           sched.raf, sched.clock)
          IN  /\ Cardinality(env1.timers) <= MaxPending
              /\ sched' = [sched EXCEPT !.env = env1]
  /\ UNCHANGED <<state, call, hist, engine, ghost, probe>>

ReentrantNext ==
  \/ ReentrantStart
  \/ ReentrantStop
  \/ ReentrantPause
  \/ ReentrantResume
  \/ ReentrantSetTickRate
  \/ ReentrantClockAdvance
  \/ ReentrantTimerFires

ReentrantSpec == ReentrantInit /\ [][ReentrantNext]_vars

\* C39: the PrecisionTicker has at most one scheduled tick pending, after
\* any calls of start, stop, pause, resume and setTickRate, also those made
\* by a callback during a tick.
C39_AtMostOnePending ==
  sched # <<>> => Cardinality(sched.env.timers) <= 1

(***************************************************************************)
(* A started run with ticks delivered for ever.  No decision of the        *)
(* engine, the cars or the spawner reads the elapsed time beyond           *)
(* MaxRunTime (the spawner has stopped by then), so the ticker's           *)
(* totalElapsedTime and the spawner's timeSinceLastSpawn are kept at       *)
(* MaxRunTime once they have reached it.                                   *)
(***************************************************************************)
KeptFinite(e) ==
  [e EXCEPT !.ticker = <<[Head(@) EXCEPT !.totalElapsedTime = Min(@, MaxRunTime)]>>,
            !.spawner = <<[Head(@) EXCEPT !.timeSinceLastSpawn = Min(@, MaxRunTime)]>>]

LiveInit ==
  /\ state = InitialState(0)
  /\ call = "none"
  /\ hist = [moveElapsed |-> 0, moveFrom |-> 0, doorElapsed |-> 0,
             arrived |-> FALSE, doorChanged |-> FALSE]
  /\ \E config \in EngineConfigs :
       /\ config.elevators > 0
       /\ config.spawnRate > 0
       /\ engine = engineStart(NewEngine(config))
  /\ ghost = [spawned |-> 0, speed |-> 100]
  /\ sched = <<>>
  /\ probe = <<>>

\* The interval timer of the running ticker fires.  call tells the ticks
\* apart: it alternates between "tick" and "tock".
TickDelivered == call' = IF call = "tick" THEN "tock" ELSE "tick"

LiveTick ==
  /\ TimerArmed
  /\ \E draws \in SpawnDraws :
       /\ engine' = KeptFinite(intervalCallback(engine, draws, ghost.spawned + 1))
       /\ ghost' = [ghost EXCEPT !.spawned =
                      @ + Len(spawnedInTick(engine, draws, ghost.spawned + 1))]
  /\ TickDelivered
  /\ UNCHANGED <<state, hist, sched, probe>>

LiveNext == LiveTick

\* setInterval fires for ever: the ticker of this run is never stopped or
\* paused, so a tick is always possible and ticks keep being delivered.
LiveSpec == LiveInit /\ [][LiveNext]_vars /\ WF_call(TickDelivered)

IsWaiting(serial) ==
  \E i \in 1 .. Len(engine.waitingPassengers) :
    engine.waitingPassengers[i].serial = serial

IsCompleted(serial) ==
  \E i \in 1 .. Len(engine.completedPassengers) :
    engine.completedPassengers[i].serial = serial

NobodyLeft ==
  /\ engine.waitingPassengers = <<>>
  /\ \A i \in 1 .. Len(engine.elevators) : engine.elevators[i].passengers = <<>>

\* C38: with the Greedy algorithm and ticks delivered for ever, every
\* waiting passenger is eventually boarded and dropped, so that it is in the
\* completed pool, and the waiting pool and the cars end up empty.
C38_EveryPassengerServed ==
  /\ \A serial \in 1 .. MaxSpawned : IsWaiting(serial) ~> IsCompleted(serial)
  /\ <>[]NobodyLeft

====
